---------------------------- MODULE Spec2Model ----------------------------
(***************************************************************************)
(* ReceiptlyPlus: the receipt text / receipt number utilities              *)
(* (utils/pdf.js in its web, mobile and earlier versions) and the receipt  *)
(* form that drives them (components/ReceiptForm.jsx).                     *)
(*                                                                         *)
(* Representation of JavaScript values                                     *)
(*   - a string whose characters matter (an amount) is a sequence of       *)
(*     one-character strings; an opaque string (a name, a payment mode)    *)
(*     is a TLA+ string;                                                   *)
(*   - undefined is the reserved value UNDEFINED, which is what a template *)
(*     literal renders it as; no input string is the text "undefined";     *)
(*   - a non-negative integer Number is its base-1000 expansion, least     *)
(*     significant group first and without leading zero groups, so that    *)
(*     n % 1000 is the first group and Math.floor(n / 1000) the rest: the  *)
(*     values the converter is asked about exceed TLC's 32-bit integers;   *)
(*   - a text built by concatenation is the sequence of its pieces.        *)
(***************************************************************************)
EXTENDS Integers, Sequences, FiniteSets, TLC

VARIABLES
    wNum,       \* convertNumberToWords: the argument num
    wOut,       \* convertNumberToWords: the words returned (<<>>: not called yet)
    wThrew,     \* convertNumberToWords: whether the call threw
    wPc,        \* "call" before the call, "done" after it
    tz,         \* the local time zone: seconds east of UTC (no DST change)
    engine,     \* how the JavaScript engine reads a day past the month's end
    app,        \* which form is running: "web" (ReceiptForm) or "mobile"
    dIn,        \* formatDateForDisplay: the argument dateString
    dVariant,   \* which utils/pdf.js is called: "current" or "legacy"
    dOut,       \* formatDateForDisplay: the string returned
    dPc,        \* "call" before the call, "done" after it
    now,        \* the system clock: seconds since the epoch (UTC)
    ticks,      \* how many times the clock has advanced
    tRec,       \* generateReceiptText: the argument data
    tVariant,   \* which utils/pdf.js is called: "web" or "mobile"
    tOut1,      \* the text the first call returned
    tOut2,      \* the text the second call returned
    tNow1,      \* the clock at the first call
    tPc,        \* "first", "second" (one call made), "done" (two made)
    nSeq1,      \* generateReceiptNumber: the argument of the first call
    nSeq2,      \* the argument of the second call
    nOut1,      \* the identifier the first call returned
    nOut2,      \* the identifier the second call returned
    nNow1,      \* the clock at the first call
    nPc,        \* "first", "second" (one call made), "done" (two made)
    formData,                  \* ReceiptForm: the form state
    signatureDataUrl,          \* the captured signature, '' when none
    isSignatureModalOpen,
    isEmpty,                   \* SignatureModal: nothing is drawn on the canvas
    isGenerating,
    message,                   \* the message shown, '' when none
    timers,                    \* pending setTimeout(() => setMessage(''))
    rental_receipts,           \* localStorage: the receipt history
    rental_receipt_seq,        \* localStorage: <<>> when absent, else <<chars>>
    rental_receipt_form_data,  \* localStorage: <<>> when absent, else <<data>>
    inFlight,                  \* the generateReceiptPDF calls awaiting, oldest first:
                               \* html2canvas, with what its caller closed over
    bodyNodes,                 \* 'receipt-content' nodes attached to the body
    savedFiles,                \* the file names pdf.save() was called with
    edits,                     \* handleInputChange events so far
    sSeqA,      \* sequence policy: the sequence number of the first call
    sSeqB,      \* the sequence number of the second call
    sOutA,      \* the number the first call returned, as characters
    sOutB,      \* the number the second call returned, as characters
    sPc,        \* the calls made so far
    fPage,      \* fit to page: the page size <<width, height>>, two Numbers
    fCanvas,    \* the raster size <<width, height>>, two integers
    fImage,     \* the arguments of pdf.addImage (<<>>: not computed yet)
    fPc,        \* "call" before the computation, "done" after it
    pVariant,   \* generateReceiptPDF: which utils/pdf.js, "web" or "mobile"
    pData,      \* the argument formData
    pSignature, \* the argument signatureDataUrl, '' when none
    pPc,        \* where the pending call is suspended, "idle" when none is
    pCalls,     \* the calls made so far
    pNodes,     \* 'receipt-content' nodes attached to the body
    pLayouts,   \* the content of the node of each call
    pPdf,       \* the addImage arguments and file name of the pending call
    pDelivered, \* what the pending or last call wrote, shared and downloaded
    pOutcomes   \* how each call ended: "true" or the message of its Error

wordsVars == <<wNum, wOut, wThrew, wPc>>

dateVars == <<dIn, dVariant, dOut, dPc>>

envVars == <<tz, engine, app>>

clockVars == <<now, ticks>>

textVars == <<tRec, tVariant, tOut1, tOut2, tNow1, tPc>>

numberVars == <<nSeq1, nSeq2, nOut1, nOut2, nNow1, nPc>>

componentVars == <<formData, signatureDataUrl, isSignatureModalOpen, isEmpty,
                   isGenerating, message, timers>>

storageVars == <<rental_receipts, rental_receipt_seq, rental_receipt_form_data>>

formVars == <<componentVars, storageVars, inFlight, bodyNodes, savedFiles,
              edits>>

sequenceVars == <<sSeqA, sSeqB, sOutA, sOutB, sPc>>

\* The state of the direct calls of the functions checked on their own.
fitVars == <<fPage, fCanvas, fImage, fPc>>

pdfVars == <<pVariant, pData, pSignature, pPc, pCalls, pNodes, pLayouts, pPdf,
             pDelivered, pOutcomes>>

callVars == <<sequenceVars, fitVars, pdfVars>>

vars == <<wNum, wOut, wThrew, wPc, tz, engine, app, dIn, dVariant, dOut, dPc,
          now, ticks, tRec, tVariant, tOut1, tOut2, tNow1, tPc,
          nSeq1, nSeq2, nOut1, nOut2, nNow1, nPc, formVars, callVars>>

(***************************************************************************)
(* Bounds of the checked input domains.                                    *)
(***************************************************************************)
MaxStrLen == 3      \* longest amount string
MaxGroups == 5      \* most base-1000 groups of a Number argument
MaxTicks == 1       \* most advances of the clock in one behaviour
MaxSeq == 2         \* largest sequence argument of generateReceiptNumber
MaxEdits == 2       \* most handleInputChange events in one behaviour
MaxReceipts == 2    \* most receipts generated in one behaviour
MaxTimers == 1      \* most message timers pending at once
MaxNodes == 1       \* most 'receipt-content' nodes attached at once
MantissaBits == 10  \* significant bits of a Number (53 in JavaScript)
MaxRaster == 12     \* largest width and height of a raster
MaxCalls == 2       \* most generateReceiptPDF calls in one behaviour

UNDEFINED == "undefined"

-----------------------------------------------------------------------------
(* JavaScript helpers *)

\* The argument of convertNumberToWords: undefined, a string or a Number.
JsUndefined == [kind |-> "undefined", chars |-> <<>>, groups |-> <<>>]

JsString(cs) == [kind |-> "string", chars |-> cs, groups |-> <<>>]

JsNumber(gs) == [kind |-> "number", chars |-> <<>>, groups |-> gs]

Digits == <<"0", "1", "2", "3", "4", "5", "6", "7", "8", "9">>

IsDigit(c) == \E i \in 1..10 : Digits[i] = c

DigitValue(c) == (CHOOSE i \in 1..10 : Digits[i] = c) - 1

\* StrWhiteSpace that parseInt strips; the amount strings checked use the space.
IsSpace(c) == c = " "

RECURSIVE SkipSpaces(_)
SkipSpaces(cs) ==
    IF cs # <<>> /\ IsSpace(Head(cs)) THEN SkipSpaces(Tail(cs)) ELSE cs

RECURSIVE DigitPrefix(_)
DigitPrefix(cs) ==
    IF cs # <<>> /\ IsDigit(Head(cs))
    THEN <<Head(cs)>> \o DigitPrefix(Tail(cs))
    ELSE <<>>

RECURSIVE StripZeros(_)
StripZeros(ds) ==
    IF ds # <<>> /\ Head(ds) = "0" THEN StripZeros(Tail(ds)) ELSE ds

\* The value of a decimal digit sequence without leading zeros, as base-1000
\* groups, least significant first.
RECURSIVE DigitsToGroups(_)
DigitsToGroups(ds) ==
    LET n == Len(ds) IN
    IF n = 0 THEN <<>>
    ELSE IF n <= 3
    THEN LET v == IF n = 1 THEN DigitValue(ds[1])
                  ELSE IF n = 2 THEN 10 * DigitValue(ds[1]) + DigitValue(ds[2])
                  ELSE 100 * DigitValue(ds[1]) + 10 * DigitValue(ds[2])
                       + DigitValue(ds[3])
         IN <<v>>
    ELSE <<100 * DigitValue(ds[n - 2]) + 10 * DigitValue(ds[n - 1])
           + DigitValue(ds[n])>>
         \o DigitsToGroups(SubSeq(ds, 1, n - 3))

NaN == [nan |-> TRUE, neg |-> FALSE, mag |-> <<>>]

\* parseInt(num), radix 10: leading white space, an optional sign, then the
\* longest run of digits; NaN when there is none.  A Number argument is first
\* converted to its decimal text, which parses back to itself.
parseInt(num) ==
    IF num.kind = "undefined" THEN NaN
    ELSE IF num.kind = "number"
    THEN [nan |-> FALSE, neg |-> FALSE, mag |-> num.groups]
    ELSE LET s    == SkipSpaces(num.chars)
             sign == s # <<>> /\ Head(s) \in {"-", "+"}
             body == IF sign THEN Tail(s) ELSE s
             ds   == DigitPrefix(body)
         IN IF ds = <<>> THEN NaN
            ELSE [nan |-> FALSE,
                  neg |-> sign /\ Head(s) = "-",
                  mag |-> DigitsToGroups(StripZeros(ds))]

-----------------------------------------------------------------------------
(* convertNumberToWords *)

ones == <<"One", "Two", "Three", "Four", "Five", "Six", "Seven", "Eight", "Nine">>

teens == <<"Ten", "Eleven", "Twelve", "Thirteen", "Fourteen", "Fifteen",
           "Sixteen", "Seventeen", "Eighteen", "Nineteen">>

tens == <<"", "Twenty", "Thirty", "Forty", "Fifty", "Sixty", "Seventy",
          "Eighty", "Ninety">>

\* scales[i] of the source is scales[i + 1] here; '' and the undefined entries
\* past the table are both falsy and add no label.
scales == <<"", "Thousand", "Lakh", "Crore">>

ScaleLabel(scaleIndex) ==
    IF scaleIndex + 1 <= Len(scales) /\ scales[scaleIndex + 1] # ""
    THEN <<scales[scaleIndex + 1]>>
    ELSE <<>>

\* The branches for 0 < number < 1000; the words are kept as a sequence, the
\* returned string being the words joined by single spaces.
RECURSIVE smallWords(_)
smallWords(number) ==
    IF number < 10 THEN <<ones[number]>>
    ELSE IF number < 20 THEN <<teens[number - 10 + 1]>>
    ELSE IF number < 100
    THEN <<tens[number \div 10]>>
         \o (IF number % 10 # 0 THEN <<ones[number % 10]>> ELSE <<>>)
    ELSE <<ones[number \div 100], "Hundred">>
         \o (IF number % 100 # 0 THEN smallWords(number % 100) ELSE <<>>)

\* The while loop: remaining is the groups still to peel off, result the
\* words so far.
RECURSIVE scaleLoop(_, _, _)
scaleLoop(remaining, scaleIndex, result) ==
    IF remaining = <<>> THEN result
    ELSE LET chunk == Head(remaining)
             next  == IF chunk # 0
                      THEN smallWords(chunk) \o ScaleLabel(scaleIndex) \o result
                      ELSE result
         IN scaleLoop(Tail(remaining), scaleIndex + 1, next)

\* A faulty variant: the isNaN guard is missing, so NaN falls through every
\* comparison and the empty result of the loop is returned.
convertNumberToWords_NoNaNGuard(num) ==
    LET number == parseInt(num) IN
    IF number.nan THEN <<>>
    ELSE IF number.mag = <<>> THEN <<"Zero">>
    ELSE IF number.neg THEN <<UNDEFINED>>
    ELSE IF Len(number.mag) = 1 THEN smallWords(number.mag[1])
    ELSE scaleLoop(number.mag, 0, <<>>)

convertNumberToWords(num) ==
    LET number == parseInt(num) IN
    IF number.nan \/ number.mag = <<>> THEN <<"Zero">>
    ELSE IF number.neg THEN <<UNDEFINED>>     \* number < 10: ones[number]
    ELSE IF Len(number.mag) = 1 THEN smallWords(number.mag[1])
    ELSE scaleLoop(number.mag, 0, <<>>)

-----------------------------------------------------------------------------
(* Dates *)

\* A date string, by its syntax:
\*   "undefined"  no value;            "empty"  the string ''
\*   "iso"    YYYY-MM-DD, zero-padded: a = year, b = month, c = day
\*   "slash"  NN/NN/YYYY, zero-padded: a, b = the two numbers, c = year
\*   "text"   a string that is no date; a = 1 when it contains a '-'
DateStr(fmt, a, b, c) == [fmt |-> fmt, a |-> a, b |-> b, c |-> c]

NoDate == DateStr("undefined", 0, 0, 0)

EmptyDate == DateStr("empty", 0, 0, 0)

IsoDate(y, m, d) == DateStr("iso", y, m, d)

\* !dateString
Falsy(dateString) == dateString.fmt \in {"undefined", "empty"}

\* dateString.includes('-')
IncludesDash(dateString) ==
    dateString.fmt = "iso" \/ (dateString.fmt = "text" /\ dateString.a = 1)

IsLeap(y) == (y % 4 = 0 /\ y % 100 # 0) \/ y % 400 = 0

DaysInMonth(y, m) ==
    IF m = 2 THEN (IF IsLeap(y) THEN 29 ELSE 28)
    ELSE IF m \in {4, 6, 9, 11} THEN 30 ELSE 31

\* Days from 1970-01-01 to the civil date y-m-d (proleptic Gregorian).
DaysFromCivil(y, m, d) ==
    LET yy  == IF m <= 2 THEN y - 1 ELSE y
        era == yy \div 400
        yoe == yy - era * 400
        mp  == IF m > 2 THEN m - 3 ELSE m + 9
        doy == (153 * mp + 2) \div 5 + d - 1
        doe == yoe * 365 + yoe \div 4 - yoe \div 100 + doy
    IN era * 146097 + doe - 719468

\* The civil date of a day number, as <<year, month, day>>.
CivilFromDays(z) ==
    LET zz  == z + 719468
        era == zz \div 146097
        doe == zz - era * 146097
        yoe == (doe - doe \div 1460 + doe \div 36524 - doe \div 146096) \div 365
        doy == doe - (365 * yoe + yoe \div 4 - yoe \div 100)
        mp  == (5 * doy + 2) \div 153
        d   == doy - (153 * mp + 2) \div 5 + 1
        m   == IF mp < 10 THEN mp + 3 ELSE mp - 9
        y   == yoe + era * 400 + (IF m <= 2 THEN 1 ELSE 0)
    IN <<y, m, d>>

SecondsPerDay == 86400

\* A Date object: its time value in seconds since the epoch (UTC), or invalid.
InvalidDate == [valid |-> FALSE, t |-> 0]

DateAt(t) == [valid |-> TRUE, t |-> t]

\* Whether the engine accepts month m, day d of year y: a day of 29..31 past
\* the end of the month is rolled into the next month by a lenient engine
\* (V8) and rejected by a strict one; a month outside 1..12 or a day outside
\* 1..31 is rejected by both.
DayAccepted(y, m, d, eng) ==
    /\ m \in 1..12
    /\ d \in 1..31
    /\ (d <= DaysInMonth(y, m) \/ eng = "lenient")

\* The day number of an accepted month and day, rolled over where needed.
DayNumber(y, m, d) == DaysFromCivil(y, m, 1) + d - 1

\* new Date(dateString + 'T00:00:00'): a date-time without offset is local.
NewDateLocalMidnight(dateString, zone, eng) ==
    IF dateString.fmt = "iso"
       /\ DayAccepted(dateString.a, dateString.b, dateString.c, eng)
    THEN DateAt(DayNumber(dateString.a, dateString.b, dateString.c)
                * SecondsPerDay - zone)
    ELSE InvalidDate

\* new Date(dateString): the date-only form YYYY-MM-DD is UTC midnight; the
\* numeric form NN/NN/YYYY is read month first, as local midnight.
NewDate(dateString, zone, eng) ==
    IF dateString.fmt = "iso"
       /\ DayAccepted(dateString.a, dateString.b, dateString.c, eng)
    THEN DateAt(DayNumber(dateString.a, dateString.b, dateString.c)
                * SecondsPerDay)
    ELSE IF dateString.fmt = "slash"
            /\ DayAccepted(dateString.c, dateString.a, dateString.b, eng)
    THEN DateAt(DayNumber(dateString.c, dateString.a, dateString.b)
                * SecondsPerDay - zone)
    ELSE InvalidDate

\* getFullYear(), getMonth() + 1 and getDate() of a valid Date, local time.
LocalCivil(date, zone) == CivilFromDays((date.t + zone) \div SecondsPerDay)

getFullYear(date, zone) == LocalCivil(date, zone)[1]

getMonth(date, zone) == LocalCivil(date, zone)[2] - 1

getDate(date, zone) == LocalCivil(date, zone)[3]

months == <<"Jan", "Feb", "Mar", "Apr", "May", "Jun", "Jul", "Aug", "Sep",
            "Oct", "Nov", "Dec">>

\* `${day}-${month}-${year}`
DisplayString(date, zone) ==
    ToString(getDate(date, zone)) \o "-" \o months[getMonth(date, zone) + 1]
        \o "-" \o ToString(getFullYear(date, zone))

\* A faulty variant: the date is parsed without the appended local midnight,
\* that is as UTC midnight.
formatDateForDisplay_ParsedAsUtc(dateString, zone, eng) ==
    IF Falsy(dateString) THEN ""
    ELSE LET date == NewDate(dateString, zone, eng)
         IN IF ~date.valid THEN "" ELSE DisplayString(date, zone)

\* formatDateForDisplay of the web and the mobile utils/pdf.js.  Neither
\* constructor call throws for a string argument, so the catch is not taken.
formatDateForDisplay(dateString, zone, eng) ==
    IF Falsy(dateString) THEN ""
    ELSE LET date == IF IncludesDash(dateString)
                     THEN NewDateLocalMidnight(dateString, zone, eng)
                     ELSE NewDate(dateString, zone, eng)
         IN IF ~date.valid THEN "" ELSE DisplayString(date, zone)

\* formatDateForDisplay of the earlier utils/pdf.js: no validity check, and the
\* getters of an invalid Date give NaN, months[NaN] undefined.
formatDateForDisplayLegacy(dateString, zone, eng) ==
    IF Falsy(dateString) THEN ""
    ELSE LET date == NewDate(dateString, zone, eng)
         IN IF ~date.valid THEN "NaN-undefined-NaN"
            ELSE DisplayString(date, zone)

-----------------------------------------------------------------------------
(* generateReceiptText *)

\* A string as a template literal or + renders it.
RECURSIVE JoinChars(_)
JoinChars(cs) == IF cs = <<>> THEN "" ELSE Head(cs) \o JoinChars(Tail(cs))

RECURSIVE JoinWords(_)
JoinWords(ws) ==
    IF ws = <<>> THEN ""
    ELSE IF Len(ws) = 1 THEN Head(ws)
    ELSE Head(ws) \o " " \o JoinWords(Tail(ws))

\* `${amount}`: the amounts composed are strings or undefined.
AmountText(amount) ==
    IF amount.kind = "undefined" THEN UNDEFINED ELSE JoinChars(amount.chars)

\* new Date().toISOString().split('T')[0]: the current UTC date.
TodayIso(clock) ==
    LET c == CivilFromDays(clock \div SecondsPerDay) IN IsoDate(c[1], c[2], c[3])

RupeeSign == "Rs"   \* U+20B9, written in ASCII

\* The two template literals, as the sequence of their pieces.
CashText(amount, amountInWords, tenantName, term, durationFrom, durationTo) ==
    <<"This is to acknowledge the receipt of <strong>" \o RupeeSign,
      AmountText(amount), "</strong> (<strong>", JoinWords(amountInWords),
      " Only</strong>) from <strong>", tenantName, "</strong> towards ", term,
      " rent for the period <strong>", durationFrom, "</strong> to <strong>",
      durationTo, "</strong>", ", paid via Cash.">>

NonCashText(amount, words, tenant, term, from, to, mode, reference, date) ==
    <<"This is to acknowledge the receipt of <strong>" \o RupeeSign,
      AmountText(amount), "</strong> (<strong>", JoinWords(words),
      " Only</strong>) from <strong>", tenant, "</strong> towards ", term,
      " rent for the period <strong>", from, "</strong> to <strong>",
      to, "</strong>", ", paid via ", mode, " (", reference,
      ") on ", date, ".">>

\* generateReceiptText of the web utils/pdf.js: the fields as they are.
generateReceiptTextWeb(data, zone, eng) ==
    LET amount          == data.amount
        amountInWords   == convertNumberToWords(amount)
        tenantName      == data.tenantName
        term            == data.term
        durationFrom    == formatDateForDisplay(data.durationFrom, zone, eng)
        durationTo      == formatDateForDisplay(data.durationTo, zone, eng)
        paymentMode     == data.paymentMode
        referenceNo     == data.referenceNo
        transactionDate ==
            formatDateForDisplay(data.dateOfTransaction, zone, eng)
    IN IF paymentMode = "Cash"
       THEN CashText(amount, amountInWords, tenantName, term, durationFrom,
                     durationTo)
       ELSE NonCashText(amount, amountInWords, tenantName, term, durationFrom,
                        durationTo, paymentMode, referenceNo, transactionDate)

\* x || fallback for an opaque string, an amount and a formatted date.
OrElse(x, fallback) == IF x = UNDEFINED \/ x = "" THEN fallback ELSE x

AmountOrElse(amount, fallback) ==
    IF amount.kind = "undefined" \/ amount.chars = <<>> THEN fallback ELSE amount

\* A faulty variant: the transaction date is always today's.
generateReceiptTextMobile_AlwaysToday(data, zone, eng, clock) ==
    LET amount          == AmountOrElse(data.amount, JsString(<<"0">>))
        amountInWords   == convertNumberToWords(amount)
        tenantName      == OrElse(data.tenantName, "Unknown")
        term            == OrElse(data.term, "Monthly")
        durationFrom    ==
            OrElse(formatDateForDisplay(data.durationFrom, zone, eng), "N/A")
        durationTo      ==
            OrElse(formatDateForDisplay(data.durationTo, zone, eng), "N/A")
        paymentMode     == OrElse(data.paymentMode, "Cash")
        referenceNo     == OrElse(data.referenceNo, "")
        transactionDate == formatDateForDisplay(TodayIso(clock), zone, eng)
    IN IF paymentMode = "Cash"
       THEN CashText(amount, amountInWords, tenantName, term, durationFrom,
                     durationTo)
       ELSE NonCashText(amount, amountInWords, tenantName, term, durationFrom,
                        durationTo, paymentMode, referenceNo, transactionDate)

\* generateReceiptText of the mobile utils/pdf.js: every field has a fallback.
generateReceiptTextMobile(data, zone, eng, clock) ==
    LET amount          == AmountOrElse(data.amount, JsString(<<"0">>))
        amountInWords   == convertNumberToWords(amount)
        tenantName      == OrElse(data.tenantName, "Unknown")
        term            == OrElse(data.term, "Monthly")
        durationFrom    ==
            OrElse(formatDateForDisplay(data.durationFrom, zone, eng), "N/A")
        durationTo      ==
            OrElse(formatDateForDisplay(data.durationTo, zone, eng), "N/A")
        paymentMode     == OrElse(data.paymentMode, "Cash")
        referenceNo     == OrElse(data.referenceNo, "")
        transactionDate ==
            OrElse(formatDateForDisplay(data.dateOfTransaction, zone, eng),
                   formatDateForDisplay(TodayIso(clock), zone, eng))
    IN IF paymentMode = "Cash"
       THEN CashText(amount, amountInWords, tenantName, term, durationFrom,
                     durationTo)
       ELSE NonCashText(amount, amountInWords, tenantName, term, durationFrom,
                        durationTo, paymentMode, referenceNo, transactionDate)

generateReceiptText(variant, data, zone, eng, clock) ==
    IF variant = "web" THEN generateReceiptTextWeb(data, zone, eng)
    ELSE generateReceiptTextMobile(data, zone, eng, clock)

-----------------------------------------------------------------------------
(* generateReceiptNumber *)

\* getHours() and getMinutes() of the clock, local time.
getHours(clock, zone) == ((clock + zone) % SecondsPerDay) \div 3600

getMinutes(clock, zone) == ((clock + zone) % 3600) \div 60

\* n.toString().slice(-2) for n >= 0: the last two characters of the decimal
\* text, or its only one.
LastTwoChars(n) ==
    IF n < 10 THEN ToString(n)
    ELSE ToString((n % 100) \div 10) \o ToString(n % 10)

\* n.toString().padStart(2, '0') for n >= 0
PadStart2(n) == IF n < 10 THEN "0" \o ToString(n) ELSE ToString(n)

\* n.toString().padStart(4, '0') for n >= 0
PadStart4(n) ==
    IF n < 10 THEN "000" \o ToString(n)
    ELSE IF n < 100 THEN "00" \o ToString(n)
    ELSE IF n < 1000 THEN "0" \o ToString(n)
    ELSE ToString(n)

\* A faulty variant: the sequence policy, RCT-{YYYY}-{sequence number}.
generateReceiptNumber_BySequence(sequenceNumber, clock, zone) ==
    "RCT-" \o ToString(getFullYear(DateAt(clock), zone)) \o "-"
        \o PadStart4(sequenceNumber)

generateReceiptNumber(sequenceNumber, clock, zone) ==
    LET rightNow == DateAt(clock)
        year     == LastTwoChars(getFullYear(rightNow, zone))
        month    == PadStart2(getMonth(rightNow, zone) + 1)
        hours    == PadStart2(getHours(clock, zone))
        minutes  == PadStart2(getMinutes(clock, zone))
    IN "RCT-" \o year \o month \o "-" \o hours \o minutes

-----------------------------------------------------------------------------
(* The sequence policy of the receipt number *)

\* n.toString() for n >= 0, as characters.
RECURSIVE ToChars(_)

ToChars(n) ==
    IF n < 10 THEN <<Digits[n + 1]>>
    ELSE ToChars(n \div 10) \o <<Digits[(n % 10) + 1]>>

PadWidth == 4

\* str.padStart(PadWidth, '0')
RECURSIVE PadStart(_)

PadStart(cs) == IF Len(cs) >= PadWidth THEN cs ELSE PadStart(<<"0">> \o cs)

\* A faulty variant: the sequence number is not padded.
formatSequence_Unpadded(seq, clock, zone) ==
    <<"R", "C", "T", "-">> \o ToChars(getFullYear(DateAt(clock), zone))
        \o <<"-">> \o ToChars(seq)

\* format(seq): "RCT-{YYYY}-{seq zero-padded to 4 digits}" with the current
\* calendar year.
formatSequence(seq, clock, zone) ==
    <<"R", "C", "T", "-">> \o ToChars(getFullYear(DateAt(clock), zone))
        \o <<"-">> \o PadStart(ToChars(seq))

-----------------------------------------------------------------------------
(* Numbers: binary floating point, round to nearest, ties to even *)

\* A Number is m * 2^e with m = 0, or |m| of exactly MantissaBits bits.  The
\* exponent is unbounded: no value computed here overflows or underflows.
RECURSIVE Pow2(_)
Pow2(k) == IF k = 0 THEN 1 ELSE 2 * Pow2(k - 1)

RECURSIVE BitLength(_)
BitLength(n) == IF n = 0 THEN 0 ELSE 1 + BitLength(n \div 2)

FloatZero == [m |-> 0, e |-> 0]

\* The Number nearest to n * 2^e, for n >= 0.
RoundMagnitude(n, e) ==
    IF n = 0 THEN FloatZero
    ELSE LET k == BitLength(n) - MantissaBits IN
         IF k <= 0 THEN [m |-> n * Pow2(-k), e |-> e + k]
         ELSE LET q    == n \div Pow2(k)
                  r    == n % Pow2(k)
                  half == Pow2(k - 1)
                  up   == r > half \/ (r = half /\ q % 2 = 1)
                  q1   == IF up THEN q + 1 ELSE q
              IN IF q1 = Pow2(MantissaBits)
                 THEN [m |-> Pow2(MantissaBits - 1), e |-> e + k + 1]
                 ELSE [m |-> q1, e |-> e + k]

FloatNeg(a) == [a EXCEPT !.m = -@]

FloatRound(n, e) ==
    IF n < 0 THEN FloatNeg(RoundMagnitude(-n, e)) ELSE RoundMagnitude(n, e)

\* An integer as a Number (canvas.width, canvas.height).
FloatFromInt(n) == FloatRound(n, 0)

\* The common exponent two Numbers are compared and subtracted at.
AlignExponent(a, b) ==
    IF a.m = 0 THEN b.e ELSE IF b.m = 0 THEN a.e
    ELSE IF a.e < b.e THEN a.e ELSE b.e

Aligned(a, e) == IF a.m = 0 THEN 0 ELSE a.m * Pow2(a.e - e)

\* a < b, as the real numbers they are.
FloatLess(a, b) ==
    LET e == AlignExponent(a, b) IN Aligned(a, e) < Aligned(b, e)

\* a / b for a >= 0 and b > 0: the quotient to MantissaBits + 2 bits and a
\* sticky bit for the remainder, then rounded once.
FloatDiv(a, b) ==
    LET k      == MantissaBits + 2
        n      == (a.m * Pow2(k)) \div b.m
        sticky == IF (a.m * Pow2(k)) % b.m = 0 THEN 0 ELSE 1
    IN FloatRound(2 * n + sticky, a.e - b.e - k - 1)

FloatMul(a, b) == FloatRound(a.m * b.m, a.e + b.e)

FloatSub(a, b) ==
    LET e == AlignExponent(a, b) IN FloatRound(Aligned(a, e) - Aligned(b, e), e)

\* x / 2 is exact.
FloatHalf(a) == IF a.m = 0 THEN a ELSE [a EXCEPT !.e = @ - 1]

MathMin(a, b) == IF FloatLess(b, a) THEN b ELSE a

-----------------------------------------------------------------------------
(* generateReceiptPDF *)

\* A faulty variant: the larger of the two ratios.
FitToPage_Max(pdfWidth, pdfHeight, canvasWidth, canvasHeight) ==
    LET imgWidth  == FloatFromInt(canvasWidth)
        imgHeight == FloatFromInt(canvasHeight)
        ratio     == MathMin(FloatNeg(FloatDiv(pdfWidth, imgWidth)),
                             FloatNeg(FloatDiv(pdfHeight, imgHeight)))
        imgX      == FloatHalf(FloatSub(pdfWidth, FloatMul(imgWidth, FloatNeg(ratio))))
        imgY      == FloatZero
    IN [x |-> imgX, y |-> imgY, width |-> FloatMul(imgWidth, FloatNeg(ratio)),
        height |-> FloatMul(imgHeight, FloatNeg(ratio))]

\* A faulty variant: the image centred vertically as well.
FitToPage_Middle(pdfWidth, pdfHeight, canvasWidth, canvasHeight) ==
    LET imgWidth  == FloatFromInt(canvasWidth)
        imgHeight == FloatFromInt(canvasHeight)
        ratio     == MathMin(FloatDiv(pdfWidth, imgWidth),
                             FloatDiv(pdfHeight, imgHeight))
        imgX      == FloatHalf(FloatSub(pdfWidth, FloatMul(imgWidth, ratio)))
        imgY      == FloatHalf(FloatSub(pdfHeight, FloatMul(imgHeight, ratio)))
    IN [x |-> imgX, y |-> imgY, width |-> FloatMul(imgWidth, ratio),
        height |-> FloatMul(imgHeight, ratio)]

\* utils/pdf.js, "Calculate dimensions to fit the content": the arguments
\* imgX, imgY, imgWidth * ratio, imgHeight * ratio of pdf.addImage.
FitToPage(pdfWidth, pdfHeight, canvasWidth, canvasHeight) ==
    LET imgWidth  == FloatFromInt(canvasWidth)
        imgHeight == FloatFromInt(canvasHeight)
        ratio     == MathMin(FloatDiv(pdfWidth, imgWidth),
                             FloatDiv(pdfHeight, imgHeight))
        imgX      == FloatHalf(FloatSub(pdfWidth, FloatMul(imgWidth, ratio)))
        imgY      == FloatZero
    IN [x |-> imgX, y |-> imgY, width |-> FloatMul(imgWidth, ratio),
        height |-> FloatMul(imgHeight, ratio)]

\* The content of the 'receipt-content' node: what the template literal
\* assigned to innerHTML interpolates, and the one style that differs.
receiptElement(variant, data, signature, zone, eng, clock) ==
    [titleName     |-> OrElse(data.titleName, "Rental Receipt"),
     titleAddress  |-> OrElse(data.titleAddress, ""),
     receiptNumber |-> IF variant = "web" THEN data.receiptNumber
                       ELSE OrElse(data.receiptNumber, "RCT-0000-0000"),
     receiptDate   |-> formatDateForDisplay(TodayIso(clock), zone, eng),
     receiptText   |-> generateReceiptText(variant, data.record, zone, eng, clock),
     signature     |-> signature,
     minHeight     |-> IF variant = "web" THEN "180mm" ELSE "140mm"]

\* `receipt-${formData.receiptNumber}.pdf`
Filename(data) == "receipt-" \o data.receiptNumber \o ".pdf"

\* A faulty variant: the catch block throws what it caught.
CaughtError_Rethrown(error) == error

\* The catch block of generateReceiptPDF: what it throws for what it caught.
CaughtError(error) == "Failed to generate PDF. Please try again."

-----------------------------------------------------------------------------
(* ReceiptForm: the functions of the component *)

\* date.toLocaleDateString('en-GB') of new Date(dateString): DD/MM/YYYY of the
\* local date, 'Invalid Date' for an invalid Date.
formatDate(dateString, zone, eng) ==
    IF Falsy(dateString) THEN EmptyDate
    ELSE LET date == NewDate(dateString, zone, eng) IN
         IF date.valid
         THEN DateStr("slash", getDate(date, zone), getMonth(date, zone) + 1,
                      getFullYear(date, zone))
         ELSE DateStr("text", 0, 0, 0)

\* The first and the last day of the month before the current local month.
getPreviousMonthDates(clock, zone) ==
    LET rightNow == DateAt(clock)
        y  == getFullYear(rightNow, zone)
        m  == getMonth(rightNow, zone) + 1
        py == IF m = 1 THEN y - 1 ELSE y
        pm == IF m = 1 THEN 12 ELSE m - 1
    IN [startDate |-> IsoDate(py, pm, 1),
        endDate   |-> IsoDate(py, pm, DaysInMonth(py, pm))]

\* The first day of the current local month a year ago, and the last day of
\* the current local month.
getDateConstraints(clock, zone) ==
    LET rightNow == DateAt(clock)
        y == getFullYear(rightNow, zone)
        m == getMonth(rightNow, zone) + 1
    IN [minDate |-> IsoDate(y - 1, m, 1),
        maxDate |-> IsoDate(y, m, DaysInMonth(y, m))]

\* The strings that trim() empties.
BlankStrings == {"", " "}

\* !value.trim(), for the text fields, the date fields and the amount.
BlankText(value) == value \in BlankStrings

BlankDate(value) == value.fmt = "empty"

BlankAmount(value) == \A i \in 1..Len(value) : IsSpace(value[i])

\* a < b on two Date objects: false when either is invalid.
DateBefore(a, b) == a.valid /\ b.valid /\ a.t < b.t

required == <<"titleName", "tenantName", "durationFrom", "durationTo", "amount">>

\* required.filter(field => !formData[field].trim())
MissingFields(data) ==
    LET Missing(field) ==
            IF field \in {"titleName", "tenantName"} THEN BlankText(data[field])
            ELSE IF field = "amount" THEN BlankAmount(data[field])
            ELSE BlankDate(data[field])
    IN SelectSeq(required, Missing)

\* missing.join(', ')
RECURSIVE JoinComma(_)

JoinComma(fields) ==
    IF fields = <<>> THEN ""
    ELSE IF Len(fields) = 1 THEN fields[1]
    ELSE fields[1] \o ", " \o JoinComma(Tail(fields))

\* A faulty variant: the reference number of a non-cash payment is not asked for.
validateForm_NoReference(data, signature, clock, zone, eng) ==
    LET missing      == MissingFields(data)
        constraints  == getDateConstraints(clock, zone)
        durationFrom == NewDate(data.durationFrom, zone, eng)
        durationTo   == NewDate(data.durationTo, zone, eng)
        minDateObj   == NewDate(constraints.minDate, zone, eng)
        maxDateObj   == NewDate(constraints.maxDate, zone, eng)
        Refuse(text) == [ok |-> FALSE, message |-> text]
    IN IF missing # <<>>
       THEN Refuse("Please fill in: " \o JoinComma(missing))
       ELSE IF data.eSignatureRequired /\ signature = ""
       THEN Refuse("E-signature is required but not provided. Please sign the document.")
       ELSE IF DateBefore(durationFrom, minDateObj)
               \/ DateBefore(maxDateObj, durationFrom)
       THEN Refuse("Duration From date must be within the allowed range (1 year ago to end of current month).")
       ELSE IF DateBefore(durationTo, minDateObj)
               \/ DateBefore(maxDateObj, durationTo)
       THEN Refuse("Duration To date must be within the allowed range (1 year ago to end of current month).")
       ELSE IF DateBefore(durationTo, durationFrom)
       THEN Refuse("Duration From date cannot be after Duration To date.")
       ELSE [ok |-> TRUE, message |-> ""]

\* validateForm: whether the form may be generated, and the message it sets
\* when not ('' leaves the message as it is).
validateForm(data, signature, clock, zone, eng) ==
    LET missing      == MissingFields(data)
        constraints  == getDateConstraints(clock, zone)
        durationFrom == NewDate(data.durationFrom, zone, eng)
        durationTo   == NewDate(data.durationTo, zone, eng)
        minDateObj   == NewDate(constraints.minDate, zone, eng)
        maxDateObj   == NewDate(constraints.maxDate, zone, eng)
        Refuse(text) == [ok |-> FALSE, message |-> text]
    IN IF missing # <<>>
       THEN Refuse("Please fill in: " \o JoinComma(missing))
       ELSE IF data.paymentMode # "Cash" /\ BlankText(data.referenceNo)
       THEN Refuse("Reference number is required for non-cash payments.")
       ELSE IF data.eSignatureRequired /\ signature = ""
       THEN Refuse("E-signature is required but not provided. Please sign the document.")
       ELSE IF DateBefore(durationFrom, minDateObj)
               \/ DateBefore(maxDateObj, durationFrom)
       THEN Refuse("Duration From date must be within the allowed range (1 year ago to end of current month).")
       ELSE IF DateBefore(durationTo, minDateObj)
               \/ DateBefore(maxDateObj, durationTo)
       THEN Refuse("Duration To date must be within the allowed range (1 year ago to end of current month).")
       ELSE IF DateBefore(durationTo, durationFrom)
       THEN Refuse("Duration From date cannot be after Duration To date.")
       ELSE [ok |-> TRUE, message |-> ""]

\* useState: the form as first rendered.
InitialFormData(clock) ==
    [titleName |-> "", titleAddress |-> "", tenantName |-> "",
     durationFrom |-> EmptyDate, durationTo |-> EmptyDate, term |-> "Monthly",
     amount |-> <<>>, dateOfTransaction |-> TodayIso(clock),
     paymentMode |-> "Cash", referenceNo |-> "", receiptNumber |-> "",
     eSignatureRequired |-> FALSE]

\* The save effect's dataToSave: the form without receipt number and date.
dataToSave(data) ==
    [titleName |-> data.titleName, titleAddress |-> data.titleAddress,
     tenantName |-> data.tenantName, durationFrom |-> data.durationFrom,
     durationTo |-> data.durationTo, term |-> data.term,
     amount |-> data.amount, paymentMode |-> data.paymentMode,
     referenceNo |-> data.referenceNo,
     eSignatureRequired |-> data.eSignatureRequired]

\* n.toString() for 0 <= n < 100, as characters.
NumberToChars(n) ==
    IF n < 10 THEN <<Digits[n + 1]>>
    ELSE <<Digits[(n \div 10) + 1], Digits[(n % 10) + 1]>>

\* parseInt(localStorage.getItem('rental_receipt_seq') || '0'). The item is
\* only written by the form, as the digits of a number below 1000.
StoredSequence(item) ==
    LET number == parseInt(JsString(IF item = <<>> THEN <<"0">> ELSE item[1]))
    IN IF number.mag = <<>> THEN 0 ELSE number.mag[1]

\* The init effect: the form after the receipt number, the default dates and
\* the saved form data have been set.
LoadedFormData(savedItem, seqItem, clock, zone) ==
    LET nextSequence  == StoredSequence(seqItem) + 1
        receiptNumber == generateReceiptNumber(nextSequence, clock, zone)
        dates         == getPreviousMonthDates(clock, zone)
        prev == [InitialFormData(clock) EXCEPT
                    !.receiptNumber = receiptNumber,
                    !.durationFrom = dates.startDate,
                    !.durationTo = dates.endDate]
    IN IF savedItem = <<>> THEN prev
       ELSE LET parsed == savedItem[1] IN
            [titleName |-> parsed.titleName,
             titleAddress |-> parsed.titleAddress,
             tenantName |-> parsed.tenantName,
             durationFrom |-> IF Falsy(parsed.durationFrom)
                              THEN dates.startDate ELSE parsed.durationFrom,
             durationTo |-> IF Falsy(parsed.durationTo)
                            THEN dates.endDate ELSE parsed.durationTo,
             term |-> parsed.term, amount |-> parsed.amount,
             dateOfTransaction |-> TodayIso(clock),
             paymentMode |-> parsed.paymentMode,
             referenceNo |-> parsed.referenceNo,
             receiptNumber |-> receiptNumber,
             eSignatureRequired |-> parsed.eSignatureRequired]

\* handleGeneratePDF: the pdfData passed to generateReceiptPDF.
PdfData(data, zone, eng) ==
    [data EXCEPT !.dateOfTransaction = formatDate(data.dateOfTransaction, zone, eng)]

\* A faulty variant: the receipt is identified by the time it was stored at.
Receipt_IdFromClock(data, pdfData, signature, clock) ==
    [id |-> ToString(clock),
     titleName |-> pdfData.titleName, titleAddress |-> pdfData.titleAddress,
     tenantName |-> pdfData.tenantName, durationFrom |-> pdfData.durationFrom,
     durationTo |-> pdfData.durationTo, term |-> pdfData.term,
     amount |-> pdfData.amount,
     dateOfTransaction |-> pdfData.dateOfTransaction,
     paymentMode |-> pdfData.paymentMode, referenceNo |-> pdfData.referenceNo,
     receiptNumber |-> pdfData.receiptNumber,
     eSignatureRequired |-> pdfData.eSignatureRequired,
     signatureDataUrl |-> signature, createdAt |-> clock]

\* handleGeneratePDF: the receipt stored after a successful generation.
Receipt(data, pdfData, signature, clock) ==
    [id |-> data.receiptNumber,
     titleName |-> pdfData.titleName, titleAddress |-> pdfData.titleAddress,
     tenantName |-> pdfData.tenantName, durationFrom |-> pdfData.durationFrom,
     durationTo |-> pdfData.durationTo, term |-> pdfData.term,
     amount |-> pdfData.amount,
     dateOfTransaction |-> pdfData.dateOfTransaction,
     paymentMode |-> pdfData.paymentMode, referenceNo |-> pdfData.referenceNo,
     receiptNumber |-> pdfData.receiptNumber,
     eSignatureRequired |-> pdfData.eSignatureRequired,
     signatureDataUrl |-> signature, createdAt |-> clock]

\* The reset of the form after a generation and after Clear All Data.
ResetFormData(prev, receiptNumber, clock) ==
    [prev EXCEPT !.receiptNumber = receiptNumber,
                 !.dateOfTransaction = TodayIso(clock),
                 !.amount = <<>>, !.tenantName = "",
                 !.durationFrom = EmptyDate, !.durationTo = EmptyDate,
                 !.referenceNo = ""]

-----------------------------------------------------------------------------
(* The arguments convertNumberToWords is checked on *)

AmountAlphabet == {"0", "1", "5", "a", " ", "-"}

ChunkValues == {0, 1, 10, 15, 50, 500, 999}

RECURSIVE SeqsUpTo(_, _)
SeqsUpTo(S, n) ==
    IF n = 0 THEN {<<>>}
    ELSE LET shorter == SeqsUpTo(S, n - 1)
         IN shorter \cup {Append(s, x) : s \in shorter, x \in S}

NumberArgs ==
    {JsNumber(gs) : gs \in {g \in SeqsUpTo(ChunkValues, MaxGroups) :
                               g = <<>> \/ g[Len(g)] # 0}}

StringArgs == {JsString(cs) : cs \in SeqsUpTo(AmountAlphabet, MaxStrLen)}

WordsArgs == {JsUndefined} \cup StringArgs \cup NumberArgs

WordsIdle == wNum = JsUndefined /\ wOut = <<>> /\ wThrew = FALSE /\ wPc = "idle"

DateIdle ==
    dIn = NoDate /\ dVariant = "current" /\ dOut = "" /\ dPc = "idle"

EnvIdle == tz = 0 /\ engine = "strict"

\* 2025-09-15 23:59:15 UTC
ClockStart == DaysFromCivil(2025, 9, 15) * SecondsPerDay + 23 * 3600 + 59 * 60 + 15

ClockSteps == {30, SecondsPerDay}

ClockIdle == now = ClockStart /\ ticks = 0

NoRecord ==
    [amount |-> JsUndefined, tenantName |-> UNDEFINED, term |-> UNDEFINED,
     durationFrom |-> NoDate, durationTo |-> NoDate, paymentMode |-> UNDEFINED,
     referenceNo |-> UNDEFINED, dateOfTransaction |-> NoDate]

TextIdle ==
    /\ tRec = NoRecord /\ tVariant = "web" /\ tOut1 = <<>> /\ tOut2 = <<>>
    /\ tNow1 = ClockStart /\ tPc = "idle"

NumberIdle ==
    /\ nSeq1 = 0 /\ nSeq2 = 0 /\ nOut1 = "" /\ nOut2 = ""
    /\ nNow1 = ClockStart /\ nPc = "idle"

FormIdle ==
    /\ app = "web"
    /\ formData = InitialFormData(ClockStart) /\ signatureDataUrl = ""
    /\ isSignatureModalOpen = FALSE /\ isEmpty = TRUE
    /\ isGenerating = FALSE /\ message = ""
    /\ timers = 0 /\ rental_receipts = <<>> /\ rental_receipt_seq = <<>>
    /\ rental_receipt_form_data = <<>> /\ inFlight = <<>> /\ bodyNodes = 0
    /\ savedFiles = <<>> /\ edits = 0

SequenceIdle ==
    /\ sSeqA = 0 /\ sSeqB = 0 /\ sOutA = <<>> /\ sOutB = <<>> /\ sPc = "idle"

FitIdle ==
    fPage = <<FloatZero, FloatZero>> /\ fCanvas = <<0, 0>> /\ fImage = <<>>
    /\ fPc = "idle"

NoPdfData ==
    [titleName |-> UNDEFINED, titleAddress |-> UNDEFINED,
     receiptNumber |-> UNDEFINED, record |-> NoRecord]

PdfIdle ==
    /\ pVariant = "web" /\ pData = NoPdfData /\ pSignature = ""
    /\ pPc = "idle" /\ pCalls = 0 /\ pNodes = 0 /\ pLayouts = <<>>
    /\ pPdf = <<>> /\ pDelivered = <<>> /\ pOutcomes = <<>>

CallsIdle == SequenceIdle /\ FitIdle /\ PdfIdle

\* Time passes.
ClockAdvance ==
    /\ ticks < MaxTicks
    /\ \E step \in ClockSteps : now' = now + step
    /\ ticks' = ticks + 1

WordsInit ==
    /\ wNum \in WordsArgs /\ wOut = <<>> /\ wThrew = FALSE /\ wPc = "call"
    /\ EnvIdle /\ DateIdle /\ ClockIdle /\ TextIdle /\ NumberIdle /\ FormIdle /\ CallsIdle

\* The function has no throw statement and indexes its tables only where a
\* missing entry reads as undefined: the call always returns.
CallConvertNumberToWords ==
    /\ wPc = "call"
    /\ wOut' = convertNumberToWords(wNum)
    /\ wThrew' = FALSE
    /\ wPc' = "done"
    /\ UNCHANGED <<wNum, envVars, dateVars, clockVars, textVars, numberVars,
                   formVars, callVars>>

WordsNext == CallConvertNumberToWords

SpecWords == WordsInit /\ [][WordsNext]_vars

-----------------------------------------------------------------------------
(* The arguments formatDateForDisplay is checked on *)

DateYears == {1969, 1970, 2000, 2024, 2025}

TimeZones == {-43200, -18000, 0, 19800, 50400}

Engines == {"strict", "lenient"}

IsoArgs == {IsoDate(y, m, d) : y \in DateYears, m \in 0..13, d \in 0..32}

SlashArgs ==
    {DateStr("slash", a, b, y) : a \in {1, 9, 12, 13, 25, 31},
                                 b \in {1, 2, 12, 13}, y \in {2024, 2025}}

TextArgs == {DateStr("text", 0, 0, 0), DateStr("text", 1, 0, 0)}

DateArgs == {NoDate, EmptyDate} \cup IsoArgs \cup SlashArgs \cup TextArgs

DateInit ==
    /\ dIn \in DateArgs /\ dVariant \in {"current", "legacy"}
    /\ dOut = "" /\ dPc = "call"
    /\ tz \in TimeZones /\ engine \in Engines
    /\ WordsIdle /\ ClockIdle /\ TextIdle /\ NumberIdle /\ FormIdle /\ CallsIdle

CallFormatDateForDisplay ==
    /\ dPc = "call"
    /\ dOut' = IF dVariant = "current"
               THEN formatDateForDisplay(dIn, tz, engine)
               ELSE formatDateForDisplayLegacy(dIn, tz, engine)
    /\ dPc' = "done"
    /\ UNCHANGED <<dIn, dVariant, envVars, wordsVars, clockVars, textVars,
                   numberVars, formVars, callVars>>

DateNext == CallFormatDateForDisplay

SpecDate == DateInit /\ [][DateNext]_vars

-----------------------------------------------------------------------------
(* The records generateReceiptText is checked on *)

Amounts == {JsUndefined, JsString(<<>>), JsString(<<"5", "0", "0", "0", "0">>)}

\* 25/12/2025 is what the forms pass for 2025-12-25 (formatDate, en-GB).
TransactionDates ==
    {NoDate, EmptyDate, IsoDate(2025, 2, 9), DateStr("slash", 25, 12, 2025)}

Records ==
    [amount : Amounts,
     tenantName : {UNDEFINED, "", "John Doe"},
     term : {UNDEFINED, "Yearly"},
     durationFrom : {NoDate, EmptyDate, IsoDate(2025, 8, 1)},
     durationTo : {EmptyDate, IsoDate(2025, 8, 31)},
     paymentMode : {UNDEFINED, "", "Cash", "Cheque"},
     referenceNo : {UNDEFINED, "", "12345"},
     dateOfTransaction : TransactionDates]

TextInit ==
    /\ tRec \in Records /\ tVariant \in {"web", "mobile"}
    /\ tOut1 = <<>> /\ tOut2 = <<>> /\ tNow1 = ClockStart /\ tPc = "first"
    /\ tz \in {-18000, 19800} /\ engine = "strict"
    /\ ClockIdle /\ WordsIdle /\ DateIdle /\ NumberIdle /\ FormIdle /\ CallsIdle

FirstGenerateReceiptText ==
    /\ tPc = "first"
    /\ tOut1' = generateReceiptText(tVariant, tRec, tz, engine, now)
    /\ tNow1' = now
    /\ tPc' = "second"
    /\ UNCHANGED <<tRec, tVariant, tOut2, envVars, clockVars, wordsVars, dateVars,
                   numberVars, formVars, callVars>>

\* The same record again, possibly at another time.
SecondGenerateReceiptText ==
    /\ tPc = "second"
    /\ tOut2' = generateReceiptText(tVariant, tRec, tz, engine, now)
    /\ tPc' = "done"
    /\ UNCHANGED <<tRec, tVariant, tOut1, tNow1, envVars, clockVars, wordsVars,
                   dateVars, numberVars, formVars, callVars>>

TextClockAdvance ==
    /\ tPc = "second"
    /\ ClockAdvance
    /\ UNCHANGED <<textVars, envVars, wordsVars, dateVars, numberVars, formVars, callVars>>

TextNext ==
    \/ FirstGenerateReceiptText
    \/ TextClockAdvance
    \/ SecondGenerateReceiptText

SpecText == TextInit /\ [][TextNext]_vars

-----------------------------------------------------------------------------
(* The calls generateReceiptNumber is checked on *)

\* 2025-09-15 23:59:15, 2005-01-01 00:00:15 and 1999-12-31 09:05:15 UTC
NumberClocks ==
    {ClockStart,
     DaysFromCivil(2005, 1, 1) * SecondsPerDay + 15,
     DaysFromCivil(1999, 12, 31) * SecondsPerDay + 9 * 3600 + 5 * 60 + 15}

NumberInit ==
    /\ nSeq1 \in 0..MaxSeq /\ nSeq2 \in 0..MaxSeq
    /\ nOut1 = "" /\ nOut2 = "" /\ nPc = "first"
    /\ now \in NumberClocks /\ nNow1 = now /\ ticks = 0
    /\ tz \in TimeZones /\ engine = "strict"
    /\ WordsIdle /\ DateIdle /\ TextIdle /\ FormIdle /\ CallsIdle

FirstGenerateReceiptNumber ==
    /\ nPc = "first"
    /\ nOut1' = generateReceiptNumber(nSeq1, now, tz)
    /\ nNow1' = now
    /\ nPc' = "second"
    /\ UNCHANGED <<nSeq1, nSeq2, nOut2, envVars, clockVars, wordsVars, dateVars,
                   textVars, formVars, callVars>>

SecondGenerateReceiptNumber ==
    /\ nPc = "second"
    /\ nOut2' = generateReceiptNumber(nSeq2, now, tz)
    /\ nPc' = "done"
    /\ UNCHANGED <<nSeq1, nSeq2, nOut1, nNow1, envVars, clockVars, wordsVars,
                   dateVars, textVars, formVars, callVars>>

NumberClockAdvance ==
    /\ nPc = "second"
    /\ ClockAdvance
    /\ UNCHANGED <<numberVars, envVars, wordsVars, dateVars, textVars,
                   formVars, callVars>>

NumberNext ==
    \/ FirstGenerateReceiptNumber
    \/ NumberClockAdvance
    \/ SecondGenerateReceiptNumber

SpecNumber == NumberInit /\ [][NumberNext]_vars

-----------------------------------------------------------------------------
(* The calls the sequence policy is checked on *)

SequenceArgs == {1, 2, 9, 10, 99, 100, 999, 1000, 9999, 10000, 10001}

SequenceInit ==
    /\ sSeqA \in SequenceArgs /\ sSeqB \in SequenceArgs
    /\ sOutA = <<>> /\ sOutB = <<>> /\ sPc = "first"
    /\ now \in NumberClocks /\ ticks = 0
    /\ tz \in {-18000, 19800} /\ engine = "strict"
    /\ WordsIdle /\ DateIdle /\ TextIdle /\ NumberIdle /\ FormIdle
    /\ FitIdle /\ PdfIdle

FirstFormatSequence ==
    /\ sPc = "first"
    /\ sOutA' = formatSequence(sSeqA, now, tz)
    /\ sPc' = "second"
    /\ UNCHANGED <<sSeqA, sSeqB, sOutB, envVars, clockVars, wordsVars, dateVars,
                   textVars, numberVars, formVars, fitVars, pdfVars>>

SecondFormatSequence ==
    /\ sPc = "second"
    /\ sOutB' = formatSequence(sSeqB, now, tz)
    /\ sPc' = "done"
    /\ UNCHANGED <<sSeqA, sSeqB, sOutA, envVars, clockVars, wordsVars, dateVars,
                   textVars, numberVars, formVars, fitVars, pdfVars>>

SequenceNext == FirstFormatSequence \/ SecondFormatSequence

SpecSequence == SequenceInit /\ [][SequenceNext]_vars

-----------------------------------------------------------------------------
(* The pages and rasters the fit to the page is checked on *)

\* The Number i units in the last place above the integer n.
NumberAbove(n, i) == [FloatFromInt(n) EXCEPT !.m = @ + i]

\* A4 in millimetres, 210 x 297, and the Numbers next above it: jsPDF
\* computes 595.28 / (72 / 25.4) = 210.0015... and 841.89 / (72 / 25.4).
PageSizes == {<<NumberAbove(210, i), NumberAbove(297, j)>> : i \in 0..3, j \in 0..1}

FitInit ==
    /\ fPage \in PageSizes
    /\ fCanvas \in (1..MaxRaster) \X (1..MaxRaster)
    /\ fImage = <<>> /\ fPc = "call"
    /\ EnvIdle /\ ClockIdle /\ WordsIdle /\ DateIdle /\ TextIdle /\ NumberIdle
    /\ FormIdle /\ SequenceIdle /\ PdfIdle

CallFitToPage ==
    /\ fPc = "call"
    /\ fImage' = FitToPage(fPage[1], fPage[2], fCanvas[1], fCanvas[2])
    /\ fPc' = "done"
    /\ UNCHANGED <<fPage, fCanvas, envVars, clockVars, wordsVars, dateVars,
                   textVars, numberVars, formVars, sequenceVars, pdfVars>>

FitNext == CallFitToPage

SpecFit == FitInit /\ [][FitNext]_vars

-----------------------------------------------------------------------------
(* The calls generateReceiptPDF is checked on *)

Signatures == {"", "data:image/png;base64,iVBOR"}

\* A record as the forms pass it, one of another payment mode without its
\* date, and one with fields missing.
PdfRecords ==
    {[amount |-> JsString(<<"5", "0", "0", "0", "0">>), tenantName |-> "John Doe",
      term |-> "Monthly", durationFrom |-> IsoDate(2025, 8, 1),
      durationTo |-> IsoDate(2025, 8, 31), paymentMode |-> "Cash",
      referenceNo |-> "", dateOfTransaction |-> DateStr("slash", 25, 12, 2025)],
     [amount |-> JsString(<<"5", "0", "0", "0", "0">>), tenantName |-> "John Doe",
      term |-> "Monthly", durationFrom |-> IsoDate(2025, 8, 1),
      durationTo |-> IsoDate(2025, 8, 31), paymentMode |-> "Cheque",
      referenceNo |-> "12345", dateOfTransaction |-> EmptyDate],
     [amount |-> JsUndefined, tenantName |-> UNDEFINED,
      term |-> UNDEFINED, durationFrom |-> NoDate,
      durationTo |-> EmptyDate, paymentMode |-> UNDEFINED,
      referenceNo |-> UNDEFINED, dateOfTransaction |-> NoDate]}

PdfArgs ==
    [titleName : {UNDEFINED, "Asha Rao"}, titleAddress : {"", "Pune"},
     receiptNumber : {UNDEFINED, "RCT-2509-0529"}, record : PdfRecords]

\* The A4 page of new jsPDF({unit: 'mm', format: 'a4'}).
A4Page == <<NumberAbove(210, 1), NumberAbove(297, 0)>>

\* The canvases html2canvas resolves with.
Canvases == {<<10, 7>>, <<10, 15>>}

PdfInit ==
    /\ pVariant \in {"web", "mobile"} /\ pData \in PdfArgs
    /\ pSignature \in Signatures
    /\ pPc = "idle" /\ pCalls = 0 /\ pNodes = 0 /\ pLayouts = <<>>
    /\ pPdf = <<>> /\ pDelivered = <<>> /\ pOutcomes = <<>>
    /\ tz \in {-18000, 19800} /\ engine = "strict"
    /\ ClockIdle /\ WordsIdle /\ DateIdle /\ TextIdle /\ NumberIdle /\ FormIdle
    /\ SequenceIdle /\ FitIdle

PdfOthers == <<pVariant, pData, pSignature, envVars, wordsVars, dateVars, textVars, numberVars, formVars, sequenceVars, fitVars>>

\* generateReceiptPDF up to its await: the node is built and attached.
CallGenerateReceiptPDF ==
    /\ pPc = "idle" /\ pCalls < MaxCalls
    /\ pCalls' = pCalls + 1
    /\ pLayouts' = Append(pLayouts, receiptElement(pVariant, pData, pSignature, tz, engine, now))
    /\ pNodes' = pNodes + 1
    /\ pPdf' = <<>> /\ pDelivered' = <<>>
    /\ pPc' = "html2canvas"
    /\ UNCHANGED <<pOutcomes, clockVars, PdfOthers>>

\* The clean up and return true that end the try block.
ReturnTrue ==
    /\ pNodes' = pNodes - 1
    /\ pOutcomes' = Append(pOutcomes, "true")
    /\ pPc' = "idle"

\* html2canvas resolves: the page is built; the web variant saves it and
\* returns, the mobile variant enters saveAndSharePDF up to its first await.
Html2canvasResolves ==
    /\ pPc = "html2canvas"
    /\ \E canvas \in Canvases :
          pPdf' = <<[image |-> FitToPage(A4Page[1], A4Page[2], canvas[1], canvas[2]),
                     filename |-> Filename(pData)]>>
    /\ IF pVariant = "web"
       THEN /\ pDelivered' = <<[by |-> "pdf.save", filename |-> Filename(pData)]>>
            /\ ReturnTrue
       ELSE /\ pPc' = "writeFile"
            /\ UNCHANGED <<pDelivered, pNodes, pOutcomes>>
    /\ UNCHANGED <<pCalls, pLayouts, clockVars, PdfOthers>>

\* html2canvas rejects: the catch block throws; nothing else runs.
Html2canvasRejects ==
    /\ pPc = "html2canvas"
    /\ pOutcomes' = Append(pOutcomes, CaughtError("html2canvas rejected"))
    /\ pPc' = "idle"
    /\ UNCHANGED <<pCalls, pNodes, pLayouts, pPdf, pDelivered, clockVars, PdfOthers>>

\* saveAndSharePDF: Filesystem.writeFile resolves, Share.share is awaited.
WriteFileResolves ==
    /\ pPc = "writeFile"
    /\ pDelivered' = Append(pDelivered, [by |-> "Filesystem.writeFile", filename |-> pPdf[1].filename])
    /\ pPc' = "share"
    /\ UNCHANGED <<pCalls, pNodes, pLayouts, pPdf, pOutcomes, clockVars, PdfOthers>>

\* saveAndSharePDF: Filesystem.writeFile rejects, the catch block downloads.
WriteFileRejects ==
    /\ pPc = "writeFile"
    /\ pDelivered' = Append(pDelivered, [by |-> "pdf.save", filename |-> pPdf[1].filename])
    /\ ReturnTrue
    /\ UNCHANGED <<pCalls, pLayouts, pPdf, clockVars, PdfOthers>>

ShareResolves ==
    /\ pPc = "share"
    /\ pDelivered' = Append(pDelivered, [by |-> "Share.share", filename |-> pPdf[1].filename])
    /\ ReturnTrue
    /\ UNCHANGED <<pCalls, pLayouts, pPdf, clockVars, PdfOthers>>

\* Share.share rejects: the catch block downloads the file already written.
ShareRejects ==
    /\ pPc = "share"
    /\ pDelivered' = Append(pDelivered, [by |-> "pdf.save", filename |-> pPdf[1].filename])
    /\ ReturnTrue
    /\ UNCHANGED <<pCalls, pLayouts, pPdf, clockVars, PdfOthers>>

PdfClockAdvance ==
    /\ ClockAdvance
    /\ UNCHANGED <<pPc, pCalls, pNodes, pLayouts, pPdf, pDelivered, pOutcomes, PdfOthers>>

PdfNext ==
    \/ CallGenerateReceiptPDF
    \/ Html2canvasResolves
    \/ Html2canvasRejects
    \/ WriteFileResolves
    \/ WriteFileRejects
    \/ ShareResolves
    \/ ShareRejects
    \/ PdfClockAdvance

SpecPdf == PdfInit /\ [][PdfNext]_vars

-----------------------------------------------------------------------------
(* ReceiptForm: the component and the browser around it *)

\* What the user types, picks and ticks.
TextInputs ==
    [titleName   |-> {"", "Asha"},
     tenantName  |-> {"", " ", "Ravi"},
     referenceNo |-> {"", "12345"},
     paymentMode |-> {"Cash", "Cheque"},
     term        |-> {"Monthly", "Quarterly"}]

DateInputs ==
    [durationFrom      |-> {EmptyDate, IsoDate(2025, 8, 1), IsoDate(2020, 1, 1)},
     durationTo        |-> {EmptyDate, IsoDate(2025, 8, 31), IsoDate(2025, 7, 1)},
     dateOfTransaction |-> {IsoDate(2025, 9, 1)}]

AmountInputs == {<<>>, <<"5", "0", "0", "0">>}

\* What an earlier visit may have left in rental_receipt_form_data.
SavedCashForm ==
    [titleName |-> "Asha", titleAddress |-> "Pune", tenantName |-> "Ravi",
     durationFrom |-> EmptyDate, durationTo |-> EmptyDate, term |-> "Monthly",
     amount |-> <<"5", "0", "0", "0">>, paymentMode |-> "Cash",
     referenceNo |-> "", eSignatureRequired |-> FALSE]

SavedChequeForm ==
    [SavedCashForm EXCEPT !.paymentMode = "Cheque", !.referenceNo = "12345",
                          !.eSignatureRequired = TRUE]

SavedForms == {<<>>, <<SavedCashForm>>, <<SavedChequeForm>>}

FormZones == {19800}

\* The page as loaded: useState, then the init effect and the save effect.
Mounted(savedItem, seqItem) ==
    /\ formData = LoadedFormData(savedItem, seqItem, now, tz)
    /\ rental_receipt_form_data = <<dataToSave(formData)>>
    /\ rental_receipt_seq = seqItem
    /\ signatureDataUrl = "" /\ isSignatureModalOpen = FALSE /\ isEmpty = TRUE
    /\ isGenerating = FALSE /\ message = "" /\ timers = 0
    /\ inFlight = <<>> /\ bodyNodes = 0

Init ==
    /\ tz \in FormZones /\ engine = "lenient" /\ app \in {"web", "mobile"}
    /\ ClockIdle /\ WordsIdle /\ DateIdle /\ TextIdle /\ NumberIdle
    /\ CallsIdle
    /\ rental_receipts = <<>> /\ savedFiles = <<>> /\ edits = 0
    /\ \E savedItem \in SavedForms : Mounted(savedItem, <<>>)

\* The page is loaded again: the component, its timers, the pending call and
\* the document are gone, localStorage and the downloaded files stay.
FormLoad ==
    /\ formData' = LoadedFormData(rental_receipt_form_data, rental_receipt_seq,
                                  now, tz)
    /\ rental_receipt_form_data' = <<dataToSave(formData')>>
    /\ signatureDataUrl' = "" /\ isSignatureModalOpen' = FALSE /\ isEmpty' = TRUE
    /\ isGenerating' = FALSE /\ message' = "" /\ timers' = 0
    /\ inFlight' = <<>> /\ bodyNodes' = 0
    /\ UNCHANGED <<rental_receipts, rental_receipt_seq, savedFiles, edits,
                   envVars, clockVars, wordsVars, dateVars, textVars,
                   numberVars, callVars>>

\* handleInputChange with e.target = {name, value or checked}, and the save
\* effect that follows the change of formData.
handleInputChange(name, value) ==
    /\ edits < MaxEdits
    /\ formData[name] # value
    /\ edits' = edits + 1
    /\ formData' =
          IF name = "term"
          THEN LET dates == getPreviousMonthDates(now, tz) IN
               [formData EXCEPT ![name] = value,
                                !.durationFrom = dates.startDate,
                                !.durationTo = dates.endDate]
          ELSE [formData EXCEPT ![name] = value]
    /\ rental_receipt_form_data' = <<dataToSave(formData')>>
    /\ UNCHANGED <<signatureDataUrl, isSignatureModalOpen, isEmpty, isGenerating,
                   message, timers, rental_receipts, rental_receipt_seq,
                   inFlight, bodyNodes, savedFiles, envVars, clockVars,
                   wordsVars, dateVars, textVars, numberVars, callVars>>

\* The signature button is rendered when eSignatureRequired is ticked.
handleSignatureRequired ==
    /\ formData.eSignatureRequired
    /\ ~isSignatureModalOpen
    /\ isSignatureModalOpen' = TRUE
    /\ UNCHANGED <<formData, signatureDataUrl, isEmpty, isGenerating, message, timers,
                   storageVars, inFlight, bodyNodes, savedFiles, edits,
                   envVars, clockVars, wordsVars, dateVars, textVars,
                   numberVars, callVars>>

handleSignatureConfirm(signatureData) ==
    /\ isSignatureModalOpen
    /\ timers < MaxTimers
    /\ signatureDataUrl' = signatureData
    /\ isSignatureModalOpen' = FALSE
    /\ message' = "Signature captured successfully!"
    /\ timers' = timers + 1
    /\ UNCHANGED <<formData, isGenerating, storageVars, inFlight, bodyNodes,
                   savedFiles, edits, envVars, clockVars, wordsVars,
                   dateVars, textVars, numberVars, callVars>>

handleSignatureCancel ==
    /\ isSignatureModalOpen
    /\ isSignatureModalOpen' = FALSE
    /\ UNCHANGED <<formData, signatureDataUrl, isGenerating, message, timers,
                   storageVars, inFlight, bodyNodes, savedFiles, edits,
                   envVars, clockVars, wordsVars, dateVars, textVars,
                   numberVars, callVars>>

\* SignatureModal: a stroke is drawn on the canvas (onBegin, onEnd).
handleBegin ==
    /\ isSignatureModalOpen /\ isEmpty
    /\ isEmpty' = FALSE
    /\ UNCHANGED <<formData, signatureDataUrl, isSignatureModalOpen,
                   isGenerating, message, timers, storageVars, inFlight,
                   bodyNodes, savedFiles, edits, envVars, clockVars,
                   wordsVars, dateVars, textVars, numberVars, callVars>>

\* SignatureModal: the Clear button.
handleClear ==
    /\ isSignatureModalOpen /\ ~isEmpty
    /\ isEmpty' = TRUE
    /\ UNCHANGED <<formData, signatureDataUrl, isSignatureModalOpen,
                   isGenerating, message, timers, storageVars, inFlight,
                   bodyNodes, savedFiles, edits, envVars, clockVars,
                   wordsVars, dateVars, textVars, numberVars, callVars>>

\* A faulty variant: Confirm does not look at the canvas.
handleConfirm_AnyCanvas ==
    /\ handleSignatureConfirm("data:image/png")
    /\ isEmpty' = TRUE

\* SignatureModal: the Confirm button. On a canvas with a drawing it hands
\* toDataURL('image/png') to onConfirm and clears the canvas; on an empty
\* canvas it does nothing.
handleConfirm ==
    /\ ~isEmpty
    /\ handleSignatureConfirm("data:image/png")
    /\ isEmpty' = TRUE

\* SignatureModal: the Cancel button and a click on the backdrop.
handleCancel ==
    /\ handleSignatureCancel
    /\ isEmpty' = TRUE

\* The button beside a captured signature: onClick={() => setSignatureDataUrl('')}
removeSignature ==
    /\ signatureDataUrl # ""
    /\ signatureDataUrl' = ""
    /\ UNCHANGED <<formData, isSignatureModalOpen, isEmpty, isGenerating, message,
                   timers, storageVars, inFlight, bodyNodes, savedFiles, edits, envVars, clockVars, wordsVars, dateVars, textVars,
                   numberVars, callVars>>

\* A faulty variant: the Generate button is never disabled.
handleGeneratePDF_NeverDisabled ==
    /\ Len(inFlight) < 3
    /\ Len(savedFiles) < MaxReceipts
    /\ bodyNodes - Len(inFlight) < MaxNodes
    /\ LET checked == validateForm(formData, signatureDataUrl, now, tz, engine)
       IN IF checked.ok
          THEN /\ isGenerating' = TRUE
               /\ message' = ""
               /\ inFlight' = Append(inFlight,
                              [data |-> formData,
                               pdfData |-> PdfData(formData, tz, engine),
                               signatureDataUrl |-> signatureDataUrl])
               /\ bodyNodes' = bodyNodes + 1
          ELSE /\ message' = checked.message
               /\ UNCHANGED <<isGenerating, inFlight, bodyNodes>>
    /\ UNCHANGED <<formData, signatureDataUrl, isSignatureModalOpen, isEmpty, timers,
                   storageVars, savedFiles, edits, envVars, clockVars,
                   wordsVars, dateVars, textVars, numberVars, callVars>>

\* handleGeneratePDF up to its await: validateForm, then generateReceiptPDF
\* up to its own await of html2canvas, with the layout node appended. The
\* button that calls it is disabled while isGenerating. The nodes that failed
\* calls have left in the document are at most MaxNodes.
handleGeneratePDF ==
    /\ ~isGenerating
    /\ Len(savedFiles) < MaxReceipts
    /\ bodyNodes - Len(inFlight) < MaxNodes
    /\ LET checked == validateForm(formData, signatureDataUrl, now, tz, engine)
       IN IF checked.ok
          THEN /\ isGenerating' = TRUE
               /\ message' = ""
               /\ inFlight' = Append(inFlight,
                              [data |-> formData,
                               pdfData |-> PdfData(formData, tz, engine),
                               signatureDataUrl |-> signatureDataUrl])
               /\ bodyNodes' = bodyNodes + 1
          ELSE /\ message' = checked.message
               /\ UNCHANGED <<isGenerating, inFlight, bodyNodes>>
    /\ UNCHANGED <<formData, signatureDataUrl, isSignatureModalOpen, isEmpty, timers,
                   storageVars, savedFiles, edits, envVars, clockVars,
                   wordsVars, dateVars, textVars, numberVars, callVars>>

\* generateReceiptPDF resolves: it has saved the file (the mobile one has
\* written and shared it, or downloaded it) and removed its node, and
\* handleGeneratePDF runs on to its end, followed by the save effect.
generateReceiptPDFResolves ==
    /\ inFlight # <<>>
    /\ timers < MaxTimers
    /\ LET call == inFlight[1]
           receipt == Receipt(call.data, call.pdfData, call.signatureDataUrl,
                              now)
           currentSequence == StoredSequence(rental_receipt_seq)
           nextSequence == IF app = "web" THEN currentSequence + 2 ELSE 0
           nextReceiptNumber == generateReceiptNumber(nextSequence, now, tz)
       IN /\ savedFiles' = Append(savedFiles,
                 "receipt-" \o call.pdfData.receiptNumber \o ".pdf")
          /\ bodyNodes' = bodyNodes - 1
          /\ rental_receipts' = Append(rental_receipts, receipt)
          /\ rental_receipt_seq' =
                IF app = "web" THEN <<NumberToChars(currentSequence + 1)>>
                ELSE rental_receipt_seq
          /\ formData' = ResetFormData(formData, nextReceiptNumber, now)
    /\ rental_receipt_form_data' = <<dataToSave(formData')>>
    /\ signatureDataUrl' = ""
    /\ message' = "Receipt generated and saved successfully!"
    /\ timers' = timers + 1
    /\ isGenerating' = FALSE
    /\ inFlight' = Tail(inFlight)
    /\ UNCHANGED <<isSignatureModalOpen, isEmpty, edits, envVars, clockVars,
                   wordsVars, dateVars, textVars, numberVars, callVars>>

\* A faulty variant: handleGeneratePDF without its finally block.
generateReceiptPDFRejects_NoFinally ==
    /\ inFlight # <<>>
    /\ app = "mobile" => timers < MaxTimers
    /\ message' = "Error generating PDF. Please try again."
    /\ timers' = IF app = "mobile" THEN timers + 1 ELSE timers
    /\ inFlight' = Tail(inFlight)
    /\ UNCHANGED <<formData, signatureDataUrl, isSignatureModalOpen, isEmpty,
                   isGenerating, storageVars, bodyNodes, savedFiles, edits,
                   envVars, clockVars, wordsVars, dateVars, textVars,
                   numberVars, callVars>>

\* A faulty variant: the failure path clears the captured signature too.
generateReceiptPDFRejects_ClearsSignature ==
    /\ inFlight # <<>>
    /\ app = "mobile" => timers < MaxTimers
    /\ message' = "Error generating PDF. Please try again."
    /\ timers' = IF app = "mobile" THEN timers + 1 ELSE timers
    /\ isGenerating' = FALSE
    /\ inFlight' = Tail(inFlight)
    /\ signatureDataUrl' = ""
    /\ UNCHANGED <<formData, isSignatureModalOpen, isEmpty, storageVars, bodyNodes,
                   savedFiles, edits, envVars, clockVars, wordsVars, dateVars,
                   textVars, numberVars, callVars>>

\* html2canvas rejects, or a later step of generateReceiptPDF throws: the
\* catch rethrows, removeChild is not reached, and handleGeneratePDF reports.
generateReceiptPDFRejects ==
    /\ inFlight # <<>>
    /\ app = "mobile" => timers < MaxTimers
    /\ message' = "Error generating PDF. Please try again."
    /\ timers' = IF app = "mobile" THEN timers + 1 ELSE timers
    /\ isGenerating' = FALSE
    /\ inFlight' = Tail(inFlight)
    /\ UNCHANGED <<formData, signatureDataUrl, isSignatureModalOpen, isEmpty,
                   storageVars, bodyNodes, savedFiles, edits, envVars,
                   clockVars, wordsVars, dateVars, textVars, numberVars, callVars>>

\* handleClearStorage (on the web with window.confirm answered OK; the mobile
\* form does not ask), and the save effect that follows the change of formData.
handleClearStorage ==
    /\ timers < MaxTimers
    /\ rental_receipts' = <<>>
    /\ rental_receipt_seq' = <<>>
    /\ formData' =
          IF app = "web"
          THEN ResetFormData(formData, generateReceiptNumber(1, now, tz), now)
          ELSE LET dates == getPreviousMonthDates(now, tz) IN
               [ResetFormData(formData, generateReceiptNumber(0, now, tz), now)
                   EXCEPT !.durationFrom = dates.startDate,
                          !.durationTo = dates.endDate]
    /\ rental_receipt_form_data' = <<dataToSave(formData')>>
    /\ signatureDataUrl' = ""
    /\ message' = "All data cleared successfully!"
    /\ timers' = timers + 1
    /\ UNCHANGED <<isSignatureModalOpen, isEmpty, isGenerating, inFlight, bodyNodes,
                   savedFiles, edits, envVars, clockVars, wordsVars,
                   dateVars, textVars, numberVars, callVars>>

\* A pending setTimeout(() => setMessage('')) fires.
TimerFire ==
    /\ timers > 0
    /\ timers' = timers - 1
    /\ message' = ""
    /\ UNCHANGED <<formData, signatureDataUrl, isSignatureModalOpen, isEmpty,
                   isGenerating, storageVars, inFlight, bodyNodes, savedFiles,
                   edits, envVars, clockVars, wordsVars, dateVars,
                   textVars, numberVars, callVars>>

\* Time passes, by more than the 3 and 5 seconds of the message timers.
FormClockAdvance ==
    /\ timers = 0
    /\ ClockAdvance
    /\ UNCHANGED <<formVars, envVars, wordsVars, dateVars, textVars,
                   numberVars, callVars>>

Next ==
    \/ FormLoad
    \/ \E name \in DOMAIN TextInputs : \E value \in TextInputs[name] :
           handleInputChange(name, value)
    \/ \E name \in DOMAIN DateInputs : \E value \in DateInputs[name] :
           handleInputChange(name, value)
    \/ \E value \in AmountInputs : handleInputChange("amount", value)
    \/ \E checked \in BOOLEAN : handleInputChange("eSignatureRequired", checked)
    \/ handleSignatureRequired
    \/ handleBegin
    \/ handleClear
    \/ handleConfirm
    \/ handleCancel
    \/ removeSignature
    \/ handleGeneratePDF
    \/ generateReceiptPDFResolves
    \/ generateReceiptPDFRejects
    \/ handleClearStorage
    \/ TimerFire
    \/ FormClockAdvance

Spec == Init /\ [][Next]_vars

\* The form with a browser that keeps its promises: a pending timeout fires
\* (the event loop runs it once its delay has passed), and the promise of a
\* pending generateReceiptPDF call settles. The second is strong fairness
\* because the steps that settle the call are held back, in this model
\* only, while MaxTimers timeouts are pending.
\* It starts from the form an earlier visit paid in cash has left.
generateReceiptPDFSettles == generateReceiptPDFResolves \/ generateReceiptPDFRejects
FairInit == Init /\ rental_receipt_form_data = <<dataToSave(LoadedFormData(<<SavedCashForm>>, <<>>, now, tz))>>
SpecFair == FairInit /\ [][Next]_vars /\ WF_vars(TimerFire) /\ SF_vars(generateReceiptPDFSettles)

-----------------------------------------------------------------------------
(* Claims about convertNumberToWords *)

\* The integer a Number argument of at most three groups stands for
\* (below 1,000,000,000).
GroupsValue(gs) ==
    (IF Len(gs) >= 1 THEN gs[1] ELSE 0)
    + (IF Len(gs) >= 2 THEN 1000 * gs[2] ELSE 0)
    + (IF Len(gs) >= 3 THEN 1000000 * gs[3] ELSE 0)

IndianScaleValue(w) ==
    IF w = "Thousand" THEN 1000 ELSE IF w = "Lakh" THEN 100000 ELSE 10000000

IsScaleWord(w) == w \in {"Thousand", "Lakh", "Crore"}

UnitWordValue(w) ==
    IF \E i \in 1..9 : ones[i] = w THEN CHOOSE i \in 1..9 : ones[i] = w
    ELSE IF \E i \in 1..10 : teens[i] = w
    THEN 9 + (CHOOSE i \in 1..10 : teens[i] = w)
    ELSE IF \E i \in 2..9 : tens[i] = w
    THEN 10 * (CHOOSE i \in 2..9 : tens[i] = w)
    ELSE 0

\* The number a sequence of words denotes when Thousand = 1,000,
\* Lakh = 100,000 and Crore = 10,000,000.
RECURSIVE ReadIndian(_, _, _)
ReadIndian(ws, total, group) ==
    IF ws = <<>> THEN total + group
    ELSE IF Head(ws) = "Hundred" THEN ReadIndian(Tail(ws), total, 100 * group)
    ELSE IF IsScaleWord(Head(ws))
    THEN ReadIndian(Tail(ws), total + group * IndianScaleValue(Head(ws)), 0)
    ELSE ReadIndian(Tail(ws), total, group + UnitWordValue(Head(ws)))

BelowThousandMillion(num) == num.kind = "number" /\ Len(num.groups) <= 3

\* C1: for every integer 0 <= n < 1,000,000,000 the words returned, read with
\* Thousand = 1,000, Lakh = 100,000 and Crore = 10,000,000, denote exactly n;
\* in particular 0 -> Zero, 15 -> Fifteen, 50000 -> Fifty Thousand,
\* 1500000 -> Fifteen Lakh and 10000000 -> One Crore.
C1_WordsDenoteIndianValue ==
    (wPc = "done" /\ BelowThousandMillion(wNum)) =>
        /\ ReadIndian(wOut, 0, 0) = GroupsValue(wNum.groups)
        /\ wNum.groups = <<>> => wOut = <<"Zero">>
        /\ wNum.groups = <<15>> => wOut = <<"Fifteen">>
        /\ wNum.groups = <<0, 50>> => wOut = <<"Fifty", "Thousand">>
        /\ wNum.groups = <<0, 500, 1>> => wOut = <<"Fifteen", "Lakh">>
        /\ wNum.groups = <<0, 0, 10>> => wOut = <<"One", "Crore">>

\* The number of scale labels among the words.
RECURSIVE ScaleWordCount(_)
ScaleWordCount(ws) ==
    IF ws = <<>> THEN 0
    ELSE (IF IsScaleWord(Head(ws)) THEN 1 ELSE 0) + ScaleWordCount(Tail(ws))

NeedsScaleAboveCrore(num) ==
    num.kind = "number" /\ \E i \in 5..Len(num.groups) : num.groups[i] # 0

\* C2: when a fifth or later group is non-zero, every non-zero group above
\* the units group appears with a scale label, unless the call failed.
C2_HighGroupsLabelled ==
    (wPc = "done" /\ NeedsScaleAboveCrore(wNum)) =>
        \/ wThrew
        \/ ScaleWordCount(wOut)
             = Cardinality({i \in 2..Len(wNum.groups) : wNum.groups[i] # 0})

\* An argument parseInt cannot read: undefined, or a string that after its
\* leading spaces and one optional sign is empty or starts with a non-digit.
RECURSIVE FirstNonSpace(_)
FirstNonSpace(cs) ==
    IF cs = <<>> THEN <<>>
    ELSE IF Head(cs) = " " THEN FirstNonSpace(Tail(cs)) ELSE cs

Unparseable(num) ==
    \/ num.kind = "undefined"
    \/ /\ num.kind = "string"
       /\ LET s == FirstNonSpace(num.chars)
              b == IF s # <<>> /\ Head(s) \in {"-", "+"} THEN Tail(s) ELSE s
          IN b = <<>> \/ Head(b) \notin {"0", "1", "2", "3", "4", "5", "6", "7", "8", "9"}

\* C3: for every argument that is undefined, empty or not parseable as a
\* number, convertNumberToWords returns "Zero".
C3_UnparseableIsZero ==
    (wPc = "done" /\ Unparseable(wNum)) => wOut = <<"Zero">>

\* C3 witness: a non-empty string that is no number has been converted.
C3_Witness ==
    /\ wPc = "done"
    /\ wNum.kind = "string" /\ wNum.chars = <<"-", "a", "5">>
    /\ wOut = <<"Zero">>

-----------------------------------------------------------------------------
(* Claims about formatDateForDisplay *)

ValidCalendarDate(dateString) ==
    /\ dateString.fmt = "iso"
    /\ dateString.b \in 1..12
    /\ dateString.c \in 1..DaysInMonth(dateString.a, dateString.b)

MonthAbbreviation(m) ==
    CASE m = 1 -> "Jan" [] m = 2 -> "Feb" [] m = 3 -> "Mar" [] m = 4 -> "Apr"
      [] m = 5 -> "May" [] m = 6 -> "Jun" [] m = 7 -> "Jul" [] m = 8 -> "Aug"
      [] m = 9 -> "Sep" [] m = 10 -> "Oct" [] m = 11 -> "Nov" [] m = 12 -> "Dec"

\* C7: for every valid calendar date YYYY-MM-DD the web and mobile
\* formatDateForDisplay return {day}-{Mon}-{year} with the day, month and year
\* of the input, the day unpadded and the month as its English abbreviation,
\* whatever the local time zone.
C7_DisplayKeepsTheDate ==
    (dPc = "done" /\ dVariant = "current" /\ ValidCalendarDate(dIn)) =>
        dOut = ToString(dIn.c) \o "-" \o MonthAbbreviation(dIn.b)
                   \o "-" \o ToString(dIn.a)

\* C7 witness: 2024-02-29 has been formatted west of Greenwich.
C7_Witness ==
    /\ dPc = "done" /\ dVariant = "current" /\ tz < 0
    /\ dIn = IsoDate(2024, 2, 29)
    /\ dOut = "29-Feb-2024"

\* A date string that is missing or that no engine reads as a date.
NotADate(dateString) ==
    \/ dateString.fmt \in {"undefined", "empty", "text"}
    \/ dateString.fmt = "iso"
       /\ (dateString.b \notin 1..12 \/ dateString.c \notin 1..31)
    \/ dateString.fmt = "slash"
       /\ (dateString.a \notin 1..12 \/ dateString.b \notin 1..31)

\* C8: for every missing, invalid or unparseable date, formatDateForDisplay
\* returns the empty string, in every variant of the formatter.
C8_InvalidDateIsEmpty ==
    (dPc = "done" /\ NotADate(dIn)) => dOut = ""

-----------------------------------------------------------------------------
(* Claims about generateReceiptText *)

Present(x) == x # UNDEFINED /\ x # ""

AmountPresent(amount) == amount.kind # "undefined" /\ amount.chars # <<>>

NonCashRecord(data) ==
    Present(data.paymentMode) /\ data.paymentMode # "Cash"

\* The last n pieces of a text.
LastPieces(text, n) ==
    IF Len(text) < n THEN text ELSE SubSeq(text, Len(text) - n + 1, Len(text))

\* C4: a Cash record's text ends ", paid via Cash." and has neither the
\* reference number nor an "on <date>" clause; a non-cash record's text ends
\* ", paid via {mode} ({referenceNo}) on {transactionDate}." with the record's
\* reference number and a non-empty transaction date (stated for records that
\* name their payment mode and, when not Cash, their reference number).
C4_PaymentClause ==
    (tPc \in {"second", "done"}) =>
        /\ tRec.paymentMode = "Cash" =>
              /\ LastPieces(tOut1, 1) = <<", paid via Cash.">>
              /\ \A i \in 1..Len(tOut1) : tOut1[i] # ") on "
              /\ Present(tRec.referenceNo) =>
                    \A i \in 1..Len(tOut1) : tOut1[i] # tRec.referenceNo
        /\ (NonCashRecord(tRec) /\ Present(tRec.referenceNo)) =>
              /\ Len(tOut1) >= 7
              /\ LastPieces(tOut1, 7) =
                    <<", paid via ", tRec.paymentMode, " (", tRec.referenceNo,
                      ") on ", tOut1[Len(tOut1) - 1], ".">>
              /\ tOut1[Len(tOut1) - 1] # ""

\* The current date as the composer shows it: the UTC date of the clock.
DisplayOfUtcDay(clock) ==
    LET c == CivilFromDays(clock \div SecondsPerDay)
    IN ToString(c[3]) \o "-" \o MonthAbbreviation(c[2]) \o "-" \o ToString(c[1])

\* C5: a record lacking amount, tenantName, term, paymentMode or a period date
\* is composed with "0", "Unknown", "Monthly", "Cash" and "N/A" in their
\* place, a non-cash record lacking its transaction date with the current
\* date, in the web and in the mobile composer alike; no field of the text is
\* empty or unresolved.
C5_Fallbacks ==
    (tPc \in {"second", "done"}) =>
        /\ ~AmountPresent(tRec.amount) => tOut1[2] = "0"
        /\ ~Present(tRec.tenantName) => tOut1[6] = "Unknown"
        /\ ~Present(tRec.term) => tOut1[8] = "Monthly"
        /\ Falsy(tRec.durationFrom) => tOut1[10] = "N/A"
        /\ Falsy(tRec.durationTo) => tOut1[12] = "N/A"
        /\ ~Present(tRec.paymentMode) =>
              LastPieces(tOut1, 1) = <<", paid via Cash.">>
        /\ (NonCashRecord(tRec) /\ Falsy(tRec.dateOfTransaction)) =>
              tOut1[Len(tOut1) - 1] = DisplayOfUtcDay(tNow1)
        /\ \A i \in {2, 6, 8, 10, 12} : Present(tOut1[i])

\* C6 as stated: two calls with an identical record return identical text,
\* whatever the clock reads at each call.
C6_SameRecordSameText ==
    tPc = "done" => tOut1 = tOut2

\* A transaction date the engines read as a date.
ReadableDate(dateString) ==
    \/ ValidCalendarDate(dateString)
    \/ /\ dateString.fmt = "slash"
       /\ dateString.a \in 1..12
       /\ dateString.b \in 1..DaysInMonth(dateString.c, dateString.a)

UtcDay(clock) == clock \div SecondsPerDay

\* C6 (amended): two calls with an identical record return identical text,
\* except in the mobile composer for a non-cash record whose transaction date
\* is missing or unreadable, when the calls fall on different UTC dates.
C6_SameTextUnlessDateFallback ==
    tPc = "done" =>
        \/ tOut1 = tOut2
        \/ /\ tVariant = "mobile"
           /\ NonCashRecord(tRec)
           /\ ~ReadableDate(tRec.dateOfTransaction)
           /\ UtcDay(tNow1) # UtcDay(now)

\* C6 witness: a dated non-cash record was composed twice by the mobile
\* composer, on different UTC dates, with the same text.
C6_Witness ==
    /\ tPc = "done" /\ tVariant = "mobile"
    /\ tRec.paymentMode = "Cheque"
    /\ tRec.dateOfTransaction = IsoDate(2025, 2, 9)
    /\ UtcDay(tNow1) # UtcDay(now)
    /\ tOut1 = tOut2
    /\ tOut1[Len(tOut1) - 1] = "9-Feb-2025"

-----------------------------------------------------------------------------
(* Claims about generateReceiptNumber *)

TwoDigits(n) == ToString((n % 100) \div 10) \o ToString(n % 10)

\* The local year, month, hour and minute of a clock reading.
ClockFields(clock, zone) ==
    LET c == CivilFromDays((clock + zone) \div SecondsPerDay)
        s == (clock + zone) % SecondsPerDay
    IN <<c[1], c[2], s \div 3600, (s % 3600) \div 60>>

ExpectedReceiptNumber(clock, zone) ==
    LET f == ClockFields(clock, zone)
    IN "RCT-" \o TwoDigits(f[1]) \o TwoDigits(f[2]) \o "-" \o TwoDigits(f[3])
           \o TwoDigits(f[4])

-----------------------------------------------------------------------------
(* Claims about ReceiptForm *)

\* C10: no two receipts stored in the rental_receipts history have the same
\* id (receipt number).
C10_ReceiptIdsUnique ==
    \A i, j \in 1..Len(rental_receipts) :
        i # j => rental_receipts[i].id # rental_receipts[j].id

\* The receipt number of the sequence policy: RCT-{YYYY}-{sequence number,
\* zero-padded to four digits}.
SequencePolicyNumber(year, sequenceNumber) ==
    "RCT-" \o ToString(year) \o "-" \o PadStart4(sequenceNumber)

\* C11: the receipt number shown on the form is RCT-YYYY-XXXX, with YYYY the
\* current calendar year and XXXX the stored rental_receipt_seq + 1 padded to
\* four digits, and the i-th receipt generated since the history was last
\* empty is stored under the number with XXXX = i.
C11_ReceiptNumberIsSequence ==
    LET year == getFullYear(DateAt(now), tz) IN
    /\ formData.receiptNumber =
          SequencePolicyNumber(year, StoredSequence(rental_receipt_seq) + 1)
    /\ \A i \in 1..Len(rental_receipts) :
          rental_receipts[i].id = SequencePolicyNumber(year, i)

-----------------------------------------------------------------------------
(* Claims about the sequence policy *)

\* The UTF-16 code unit of a character of a receipt number.
CodeUnit(c) ==
    IF IsDigit(c) THEN 48 + DigitValue(c)
    ELSE IF c = "-" THEN 45
    ELSE IF c = "C" THEN 67
    ELSE IF c = "R" THEN 82
    ELSE 84

\* s < t on strings: by the first code unit that differs, a proper prefix
\* being smaller.
RECURSIVE LexLess(_, _)

LexLess(s, t) ==
    IF t = <<>> THEN FALSE
    ELSE IF s = <<>> THEN TRUE
    ELSE IF Head(s) # Head(t) THEN CodeUnit(Head(s)) < CodeUnit(Head(t))
    ELSE LexLess(Tail(s), Tail(t))

\* C12 as stated: in one year, for every pair of sequence numbers
\* 1 <= a < b, format(a) is lexicographically smaller than format(b).
C12_SequenceNumbersIncrease ==
    (sPc = "done" /\ 1 <= sSeqA /\ sSeqA < sSeqB) => LexLess(sOutA, sOutB)

\* C12 amended: in one year, for every pair of sequence numbers
\* 1 <= a < b <= 9999 (numbers that fit the four padded digits), format(a)
\* is lexicographically smaller than format(b).
C12_PaddedSequenceNumbersIncrease ==
    (sPc = "done" /\ 1 <= sSeqA /\ sSeqA < sSeqB /\ sSeqB <= 9999)
        => LexLess(sOutA, sOutB)

\* C12 witness: 9 and 10, whose unpadded digits compare the other way, were
\* formatted in 2025 and compare as the numbers do.
C12_Witness ==
    /\ sPc = "done" /\ sSeqA = 9 /\ sSeqB = 10
    /\ sOutA = <<"R", "C", "T", "-", "2", "0", "2", "5", "-", "0", "0", "0", "9">>
    /\ sOutB = <<"R", "C", "T", "-", "2", "0", "2", "5", "-", "0", "0", "1", "0">>
    /\ LexLess(sOutA, sOutB)

-----------------------------------------------------------------------------
(* Claims about the fit to the page *)

\* The lowest exponent of some Numbers, and a Number as a multiple of 2^e.
LowExponent(S) == CHOOSE e \in {a.e : a \in S} : \A b \in S : e <= b.e

\* One unit in the last place of the Number a, as a multiple of 2^e.
Ulp(a, e) == Pow2(a.e - e)

Abs(i) == IF i < 0 THEN -i ELSE i

\* The scaled raster is at most `slack` units in the last place of the page
\* larger than the page, and in one dimension at most `slack` away from it.
FitsWithin(slack) ==
    LET e  == LowExponent({fPage[1], fPage[2], fImage.width, fImage.height})
        pw == Aligned(fPage[1], e)
        ph == Aligned(fPage[2], e)
        sw == Aligned(fImage.width, e)
        sh == Aligned(fImage.height, e)
    IN /\ sw <= pw + slack * Ulp(fPage[1], e)
       /\ sh <= ph + slack * Ulp(fPage[2], e)
       /\ \/ Abs(sw - pw) <= slack * Ulp(fPage[1], e)
          \/ Abs(sh - ph) <= slack * Ulp(fPage[2], e)

\* C15: the scaled raster is no wider and no higher than the page, and
\* exactly as wide or exactly as high as it.
C15_FitsThePage == fPc = "done" => FitsWithin(0)

\* C15, as the code has it: the scaled raster is no more than one unit in
\* the last place wider or higher than the page, and no more than one unit
\* in the last place away from it in one dimension.
C15_FitsThePageRounded == fPc = "done" => FitsWithin(1)

\* C15: a raster scaled to one unit in the last place more than the page.
C15_Witness ==
    /\ fPc = "done"
    /\ FloatLess(fPage[1], fImage.width) \/ FloatLess(fPage[2], fImage.height)

\* The image is at y = 0 and x is at least -slack half units in the last
\* place of the page width; the margins left and right of it, x and
\* pageWidth - x - scaledWidth, differ by at most slack such units.
PlacedWithin(slack) ==
    LET e  == LowExponent({fPage[1], fImage.width, fImage.x}) - 1
        pw == Aligned(fPage[1], e)
        sw == Aligned(fImage.width, e)
        x  == Aligned(fImage.x, e)
    IN /\ fImage.y = FloatZero
       /\ 2 * x >= -slack * Ulp(fPage[1], e)
       /\ Abs((pw - x - sw) - x) <= slack * Ulp(fPage[1], e)

\* C16: x is not negative, the image is at the top of the page, and the
\* margins left and right of it are equal.
C16_CentredAtTheTop == fPc = "done" => PlacedWithin(0)

\* C16, as the code has it: the image is at the top of the page, x is not
\* below minus half a unit in the last place of the page width, and the two
\* margins differ by at most one such unit.
C16_CentredAtTheTopRounded == fPc = "done" => PlacedWithin(1)

\* C16: an image placed left of the page's edge.
C16_Witness == fPc = "done" /\ FloatLess(fImage.x, FloatZero)

-----------------------------------------------------------------------------
(* Claims about generateReceiptPDF *)

\* C13: once a call of generateReceiptPDF has ended, by returning or by
\* throwing, no 'receipt-content' node is attached, whatever calls came before.
C13_NodeRemoved == pPc = "idle" => pNodes = 0

\* C14: a call whose rasterization failed ended with the one generic error
\* and neither built nor saved, downloaded or shared a PDF; every call that
\* has ended has one outcome.
C14_RasterFailureIsOneError ==
    /\ pPc = "idle" => Len(pOutcomes) = pCalls
    /\ \A i \in 1..Len(pOutcomes) :
           pOutcomes[i] # "true" =>
               pOutcomes[i] = "Failed to generate PDF. Please try again."
    /\ (pPc = "idle" /\ pCalls > 0 /\ pOutcomes[pCalls] # "true") =>
           pPdf = <<>> /\ pDelivered = <<>>

\* C14: a second call has failed in html2canvas after a first that delivered.
C14_Witness ==
    /\ pPc = "idle" /\ pCalls = 2
    /\ pOutcomes[1] = "true" /\ pOutcomes[2] # "true"

\* C17: two renders of the same record and signature have the same content.
C17_SameLayout == Len(pLayouts) = 2 => pLayouts[1] = pLayouts[2]

\* C18: the web and the mobile variant compose the same text for the record
\* of the call and print the same receipt number.
C18_WebAndMobileAgree ==
    pCalls > 0 =>
        LET web    == receiptElement("web", pData, pSignature, tz, engine, now)
            mobile == receiptElement("mobile", pData, pSignature, tz, engine, now)
        IN /\ web.receiptText = mobile.receiptText
           /\ web.receiptNumber = mobile.receiptNumber

-----------------------------------------------------------------------------
(* Claims about the receipt history *)

\* The formData argument of the pending generateReceiptPDF call, as
\* generateReceiptPDF reads it, and the node it renders now.
PendingArgument ==
    LET d == inFlight[1].pdfData
    IN [titleName |-> d.titleName, titleAddress |-> d.titleAddress,
        receiptNumber |-> d.receiptNumber,
        record |-> [amount |-> JsString(d.amount), tenantName |-> d.tenantName,
                    term |-> d.term, durationFrom |-> d.durationFrom,
                    durationTo |-> d.durationTo, paymentMode |-> d.paymentMode,
                    referenceNo |-> d.referenceNo,
                    dateOfTransaction |-> d.dateOfTransaction]]

PendingElement ==
    receiptElement(app, PendingArgument, inFlight[1].signatureDataUrl, tz, engine, now)

\* C19: a step that saves a PDF appends one record to rental_receipts and
\* leaves the earlier ones as they were and in order; the id of the record
\* is the receipt number on the PDF and in the name of the file; no other
\* step adds a record.
C19_OneReceiptPerGeneration ==
    [][LET n == Len(rental_receipts) IN
       /\ Len(savedFiles') > Len(savedFiles) =>
             /\ Len(savedFiles') = Len(savedFiles) + 1
             /\ Len(rental_receipts') = n + 1
             /\ SubSeq(rental_receipts', 1, n) = rental_receipts
             /\ rental_receipts'[n + 1].id = PendingElement.receiptNumber
             /\ savedFiles'[Len(savedFiles')] = Filename(rental_receipts'[n + 1])
             /\ Filename(PendingArgument) = savedFiles'[Len(savedFiles')]
       /\ Len(savedFiles') = Len(savedFiles) => Len(rental_receipts') <= n
      ]_vars

\* C19: two receipts generated, two files saved.
C19_Witness == Len(rental_receipts) = 2 /\ Len(savedFiles) = 2

-----------------------------------------------------------------------------
(* Claims about Clear All Data *)

\* A stored form, if any, holds only what a form nobody typed into holds.
NothingEntered(item) ==
    \/ item = <<>>
    \/ LET fresh == InitialFormData(now)
           saved == item[1]
       IN /\ saved.titleName = fresh.titleName
          /\ saved.titleAddress = fresh.titleAddress
          /\ saved.tenantName = fresh.tenantName
          /\ saved.amount = fresh.amount
          /\ saved.referenceNo = fresh.referenceNo
          /\ saved.term = fresh.term
          /\ saved.paymentMode = fresh.paymentMode
          /\ saved.eSignatureRequired = fresh.eSignatureRequired

\* C20: the step of a confirmed Clear All Data, with the effects it triggers,
\* leaves no receipts, no sequence number, no stored form with anything entered
\* earlier, and no captured signature.
C20_ClearResetsEverything ==
    [][(message' = "All data cleared successfully!" /\ timers' = timers + 1) =>
           /\ rental_receipts' = <<>>
           /\ rental_receipt_seq' = <<>>
           /\ NothingEntered(rental_receipt_form_data')
           /\ signatureDataUrl' = ""
      ]_vars

-----------------------------------------------------------------------------
(* Claims about the gate of validateForm *)

\* What the form must hold for a receipt to be generated from it.
Complete(data, signature) ==
    LET from == NewDate(data.durationFrom, tz, engine)
        to   == NewDate(data.durationTo, tz, engine)
    IN /\ data.titleName \notin BlankStrings
       /\ data.tenantName \notin BlankStrings
       /\ data.durationFrom.fmt # "empty" /\ data.durationTo.fmt # "empty"
       /\ \E i \in 1..Len(data.amount) : ~IsSpace(data.amount[i])
       /\ data.paymentMode # "Cash" => data.referenceNo \notin BlankStrings
       /\ data.eSignatureRequired => signature # ""
       /\ from.valid /\ to.valid /\ from.t <= to.t

\* C21: generateReceiptPDF is pending only for a complete form, and every
\* receipt in the history is one of a complete form.
C21_ValidationGates ==
    /\ inFlight # <<>> =>
           /\ Complete(inFlight[1].data, inFlight[1].signatureDataUrl)
           /\ Complete(inFlight[1].pdfData, inFlight[1].signatureDataUrl)
    /\ \A i \in 1..Len(rental_receipts) :
           Complete(rental_receipts[i], rental_receipts[i].signatureDataUrl)

\* C21: a receipt of a signed non-cash payment is in the history.
C21_Witness ==
    \E i \in 1..Len(rental_receipts) :
        /\ rental_receipts[i].paymentMode # "Cash"
        /\ rental_receipts[i].eSignatureRequired

-----------------------------------------------------------------------------
(* Claims about the transaction date of a receipt *)

\* An entered date YYYY-MM-DD written D-Mon-YYYY.
Entered(dateString) ==
    ToString(dateString.c) \o "-" \o months[dateString.b] \o "-"
        \o ToString(dateString.a)

\* C22: the text of a pending non-cash receipt carries, before its final
\* full stop, the date of transaction as it was entered in the form.
C22_TransactionDatePrinted ==
    (inFlight # <<>> /\ inFlight[1].data.paymentMode # "Cash") =>
        LET text == PendingElement.receiptText
        IN text[Len(text) - 1] = Entered(inFlight[1].data.dateOfTransaction)

-----------------------------------------------------------------------------
(* Claims about a failed generation *)

\* C23: the step in which a pending generation ends without a file, on a
\* page that stays loaded (its node stays attached), leaves rental_receipts,
\* rental_receipt_seq, the stored form, the form with its receipt number
\* and the captured signature as they were, and shows the error message.
C23_FailureChangesNothing ==
    [][(inFlight # <<>> /\ inFlight' = <<>> /\ savedFiles' = savedFiles
            /\ bodyNodes' = bodyNodes) =>
           /\ UNCHANGED <<rental_receipts, rental_receipt_seq,
                          rental_receipt_form_data, formData, signatureDataUrl>>
           /\ message' = "Error generating PDF. Please try again."
      ]_vars

\* C23: a generation has failed, the captured signature is still there.
C23_Witness ==
    /\ message = "Error generating PDF. Please try again."
    /\ inFlight = <<>> /\ ~isGenerating
    /\ signatureDataUrl # "" /\ formData.tenantName = "Ravi"

-----------------------------------------------------------------------------
(* Claims about the stored sequence number *)

\* C24: in every state of the form the number stored under
\* rental_receipt_seq (0 when the item is absent) is the number of
\* receipts stored under rental_receipts.
C24_SequenceCountsReceipts ==
    StoredSequence(rental_receipt_seq) = Len(rental_receipts)

-----------------------------------------------------------------------------
(* Claims about isGenerating *)

\* C25: isGenerating is true exactly while a generateReceiptPDF call of
\* the form is pending, and when the pending call settles, isGenerating
\* becomes false again, after a success and after a failure.
C25_GeneratingWhilePending ==
    /\ [](isGenerating <=> inFlight # <<>>)
    /\ (isGenerating ~> ~isGenerating)

\* C25: a generation has succeeded and a later one has failed, and
\* isGenerating is false.
C25_Witness ==
    /\ ~isGenerating /\ Len(savedFiles) = 1
    /\ message = "Error generating PDF. Please try again."

-----------------------------------------------------------------------------
(* Claims about overlapping generations *)

\* C26: no step of the form leaves more than one generateReceiptPDF call
\* pending, no step starts a call while one is pending, and while a call
\* is pending the Generate button is disabled (isGenerating), so no two
\* pending calls carry the same receipt number.
C26_OneCallInFlight ==
    [][/\ Len(inFlight') <= 1
       /\ inFlight # <<>> => (isGenerating /\ Len(inFlight') <= Len(inFlight))
       /\ \A i, j \in 1..Len(inFlight') :
              inFlight'[i].pdfData.receiptNumber =
                  inFlight'[j].pdfData.receiptNumber => i = j
      ]_vars

\* C26: a call is pending after an earlier one has saved its file.
C26_Witness ==
    Len(inFlight) = 1 /\ isGenerating /\ Len(savedFiles) = 1

-----------------------------------------------------------------------------
(* Claims about the timeouts that clear the message *)

\* The messages that are set together with a timeout that clears the message.
SuccessMessages == {"Signature captured successfully!", "Receipt generated and saved successfully!", "All data cleared successfully!"}

\* C27: a step in which a pending timeout fires and clears the message, on
\* a page that stays loaded (it keeps its captured signature), only clears
\* a message that a timeout was scheduled for: a success message (or, in
\* the mobile form, the generation error), never a validation message or
\* the web form's generation error.
C27_TimerClearsItsOwnMessage ==
    [][(/\ timers' = timers - 1 /\ message # "" /\ message' = ""
        /\ signatureDataUrl # "" /\ signatureDataUrl' = signatureDataUrl) =>
           \/ message \in SuccessMessages
           \/ app = "mobile" /\ message = "Error generating PDF. Please try again."
      ]_vars

-----------------------------------------------------------------------------
(* Claims about saveAndSharePDF *)

\* C28: when a mobile generateReceiptPDF call that got past html2canvas has
\* ended, its file was either written to the device and shared, or only
\* downloaded by pdf.save, and the call returned true.
C28_DeliveredOnce ==
    (pVariant = "mobile" /\ pPc = "idle" /\ pPdf # <<>>) =>
        LET by == {pDelivered[i].by : i \in 1..Len(pDelivered)}
        IN /\ by = {"Filesystem.writeFile", "Share.share"} \/ by = {"pdf.save"}
           /\ pOutcomes[Len(pOutcomes)] = "true"

-----------------------------------------------------------------------------
(* Claims about the signature modal *)

\* The component after the page was loaded again.
Reloaded == signatureDataUrl = "" /\ message = "" /\ timers = 0 /\ isEmpty /\ inFlight = <<>> /\ bodyNodes = 0

\* C29: a step gives the stored signature a new value only when the modal
\* is open with a drawing on its canvas, and that step closes the modal;
\* while the canvas is empty no step stores a signature; a step that
\* closes the modal leaves the stored signature as it was unless it is
\* that Confirm, or the page being loaded again.
C29_SignatureOnlyByConfirm ==
    [][/\ (signatureDataUrl' # signatureDataUrl /\ signatureDataUrl' # "") =>
              (isSignatureModalOpen /\ ~isEmpty /\ ~isSignatureModalOpen')
       /\ (isSignatureModalOpen /\ ~isSignatureModalOpen') =>
              \/ signatureDataUrl' = signatureDataUrl
              \/ ~isEmpty /\ signatureDataUrl' # ""
              \/ Reloaded'
      ]_vars

\* C29: Confirm on a drawing has stored the signature, closed the modal
\* and cleared the canvas.
C29_Witness ==
    /\ signatureDataUrl # "" /\ ~isSignatureModalOpen /\ isEmpty
    /\ message = "Signature captured successfully!" /\ timers = 1

====
